---------------------------- MODULE Spec2Model ----------------------------
(***************************************************************************)
(* A model of the crossword filler of gridgpt (src/src/gridgpt/            *)
(* crosswords.py): the pattern index, slot enumeration, placement and      *)
(* removal of words, the backtracking search select_words with its         *)
(* process-wide placement cache and per-slot attempt counters, and the     *)
(* retry loop of main.                                                     *)
(*                                                                         *)
(* Conventions.  A word, a pattern and a grid row are tuples of one-letter *)
(* strings; "." is an empty cell and "#" a block.  Rows and columns are    *)
(* 0-based as in the code, tuples are 1-based, so cell (r, c) of grid g is *)
(* g[r + 1][c + 1].  A slot is <<row, col, direction, length>> and a       *)
(* placed word is <<word, row, col, direction>>, as in the code.           *)
(* stats.slot_fill_order (a log that nothing reads back) is not modelled.  *)
(***************************************************************************)
EXTENDS Integers, Sequences, FiniteSets, TLC

VARIABLES
    words_by_length,      \* the corpus: the words load_words kept, in list order
    word_frequencies,     \* word_frequencies of load_words (millionths), keyed by word
    word_index,           \* the global word_index: <<length, pattern>> -> list of words
    config,               \* the Config fields the solve reads
    placement_cache,      \* the global placement_cache: key -> TRUE / FALSE
    slot_attempts_count,  \* the global slot_attempts_count: the items
                          \* <<<<row, col, dir>>, count>> in insertion order
    stats,                \* the global CrosswordStats object
    call,                 \* the arguments of the running select_words call
    top,                  \* the top-level select_words_recursive call (main thread)
    tasks,                \* the futures submitted to the executor by the top-level call
    result,               \* what the last select_words call returned
    pc,                   \* where the caller of select_words is
    main,                 \* the retry loop of main: its counter and its outcome
    unit,                 \* a direct call of place_word and remove_word
    scan,                 \* a direct call of find_slots
    rgrid,                \* a call of generate_grid_random
    gen,                  \* a call of generate_themed_crossword (crossword_generator.py)
    theme,                \* a call of generate_theme_entry (theme_manager.py)
    prior                 \* what select_words returned in an earlier run of the program

vars == <<words_by_length, word_frequencies, word_index, config, placement_cache,
          slot_attempts_count, stats, call, top, tasks, result, pc, main, unit,
          scan, rgrid, gen, theme, prior>>

-----------------------------------------------------------------------------
(* Small helpers *)

\* the value the code returns as (None, None); a success is <<grid, placed_words>>
NoResult == <<>>

Range(s) == {s[i] : i \in DOMAIN s}

Min(a, b) == IF a < b THEN a ELSE b

Max(a, b) == IF a > b THEN a ELSE b

Abs(a) == IF a < 0 THEN -a ELSE a

Height(grid) == Len(grid)

Width(grid) == Len(grid[1])

\* grid[r][c] of the code
Cell(grid, r, c) == grid[r + 1][c + 1]

\* the cell of a slot at offset i (0-based) in the slot's direction
SlotCell(grid, row, col, direction, i) ==
    IF direction = "across" THEN Cell(grid, row, col + i) ELSE Cell(grid, row + i, col)

\* a Python slice seq[a:b] (0-based, clipped to the sequence)
Slice(seq, a, b) == SubSeq(seq, a + 1, Min(b, Len(seq)))

\* the letters the code reads for a slot: grid[row][col:col + length] for an
\* across slot, [grid[row + i][col] for i in range(length)] for a down slot
SlotLetters(grid, row, col, direction, length) ==
    IF direction = "across"
    THEN Slice(grid[row + 1], col, col + length)
    ELSE [i \in 1..length |-> Cell(grid, row + i - 1, col)]

\* create_pattern: '.' stays '.', every other character stays itself
create_pattern(word) == [i \in DOMAIN word |-> IF word[i] = "." THEN "." ELSE word[i]]

-----------------------------------------------------------------------------
(* build_word_index *)

EmptyPattern(length) == [i \in 1..length |-> "."]

\* the pattern of the inner loops: word's letters on [i, j), '.' elsewhere
PartialPattern(word, i, j) ==
    [k \in 1..Len(word) |-> IF i <= k - 1 /\ k - 1 < j THEN word[k] ELSE "."]

\* word_index[key].append(word) on a defaultdict(list)
IndexAppend(index, key, word) ==
    IF key \in DOMAIN index
    THEN [index EXCEPT ![key] = Append(@, word)]
    ELSE index @@ (key :> <<word>>)

\* the j loop of one i: for j in range(i + 1, length + 1)
RECURSIVE IndexRangesJ(_, _, _, _)
IndexRangesJ(index, word, i, j) ==
    IF j > Len(word) THEN index
    ELSE IndexRangesJ(IndexAppend(index, <<Len(word), PartialPattern(word, i, j)>>, word),
                      word, i, j + 1)

\* the i loop: for i in range(length)
RECURSIVE IndexRangesI(_, _, _)
IndexRangesI(index, word, i) ==
    IF i >= Len(word) THEN index
    ELSE IndexRangesI(IndexRangesJ(index, word, i, i + 1), word, i + 1)

\* the body of "for word in words": the full word, then every sub-range
IndexWord(index, word) ==
    IndexRangesI(IndexAppend(index, <<Len(word), word>>, word), word, 0)

RECURSIVE IndexWords(_, _, _)
IndexWords(index, words, k) ==
    IF k > Len(words) THEN index
    ELSE IndexWords(IndexWord(index, words[k]), words, k + 1)

WordsOfLength(words, length) == SelectSeq(words, LAMBDA w : Len(w) = length)

\* one iteration of "for length, words in words_by_length.items()"
IndexLength(index, words, length) ==
    IndexWords(index @@ (<<length, EmptyPattern(length)>> :> WordsOfLength(words, length)),
               WordsOfLength(words, length), 1)

RECURSIVE IndexLengths(_, _, _)
IndexLengths(index, words, lengths) ==
    IF lengths = {} THEN index
    ELSE LET l == CHOOSE x \in lengths : \A y \in lengths : x <= y
         IN  IndexLengths(IndexLength(index, words, l), words, lengths \ {l})

\* build_word_index(words_by_length): the index is cleared, then rebuilt
build_word_index(words) ==
    IndexLengths(<<>>, words, {Len(words[k]) : k \in DOMAIN words})

\* word_index.get(key, [])
IndexGet(index, length, pattern) ==
    IF <<length, pattern>> \in DOMAIN index THEN index[<<length, pattern>>] ELSE <<>>

-----------------------------------------------------------------------------
(* Grids and slots *)

MinWordLength == 3

\* is_valid_grid: non-empty, rectangular, only '.' and '#'
is_valid_grid(grid) ==
    /\ Len(grid) > 0
    /\ \A r \in DOMAIN grid :
          /\ Len(grid[r]) = Len(grid[1])
          /\ \A c \in DOMAIN grid[r] : grid[r][c] \in {".", "#"}

\* The scan of one line (a row for across, a column for down) of find_slots:
\* k is the loop index, start the start of the open run or -1, acc the
\* <<start, length>> pairs found so far.
RECURSIVE ScanLine(_, _, _, _, _)
ScanLine(line, k, start, acc, minlen) ==
    IF k >= Len(line)
    THEN IF start # -1 /\ Len(line) - start >= minlen
         THEN Append(acc, <<start, Len(line) - start>>)
         ELSE acc
    ELSE IF line[k + 1] = "."
         THEN ScanLine(line, k + 1, IF start = -1 THEN k ELSE start, acc, minlen)
         ELSE IF start # -1
              THEN ScanLine(line, k + 1, -1,
                            IF k - start >= minlen THEN Append(acc, <<start, k - start>>)
                            ELSE acc, minlen)
              ELSE ScanLine(line, k + 1, start, acc, minlen)

Column(grid, c) == [r \in 1..Height(grid) |-> Cell(grid, r - 1, c)]

RECURSIVE AcrossSlots(_, _, _)
AcrossSlots(grid, r, minlen) ==
    IF r >= Height(grid) THEN <<>>
    ELSE LET runs == ScanLine(grid[r + 1], 0, -1, <<>>, minlen)
         IN  [i \in DOMAIN runs |-> <<r, runs[i][1], "across", runs[i][2]>>]
             \o AcrossSlots(grid, r + 1, minlen)

RECURSIVE DownSlots(_, _, _)
DownSlots(grid, c, minlen) ==
    IF c >= Width(grid) THEN <<>>
    ELSE LET runs == ScanLine(Column(grid, c), 0, -1, <<>>, minlen)
         IN  [i \in DOMAIN runs |-> <<runs[i][1], c, "down", runs[i][2]>>]
             \o DownSlots(grid, c + 1, minlen)

\* a variant of find_slots that keeps only the runs longer than minlen
find_slots_longer(grid, minlen) ==
    AcrossSlots(grid, 0, minlen + 1) \o DownSlots(grid, 0, minlen + 1)

\* find_slots: the across slots row by row, then the down slots column by column
find_slots(grid, minlen) == AcrossSlots(grid, 0, minlen) \o DownSlots(grid, 0, minlen)

\* place_word: a copy of the grid with the word's letters written
place_word(grid, word, row, col, direction) ==
    [r \in DOMAIN grid |-> [c \in DOMAIN grid[r] |->
        IF direction = "across"
        THEN IF r - 1 = row /\ c - 1 >= col /\ c - 1 < col + Len(word)
             THEN word[c - col] ELSE grid[r][c]
        ELSE IF c - 1 = col /\ r - 1 >= row /\ r - 1 < row + Len(word)
             THEN word[r - row] ELSE grid[r][c]]]

\* remove_word: a copy of the grid where every cell of the word's range that
\* holds the word's letter is reset to '.'
remove_word(grid, word, row, col, direction) ==
    [r \in DOMAIN grid |-> [c \in DOMAIN grid[r] |->
        IF direction = "across"
        THEN IF r - 1 = row /\ c - 1 >= col /\ c - 1 < col + Len(word)
                /\ grid[r][c] = word[c - col]
             THEN "." ELSE grid[r][c]
        ELSE IF c - 1 = col /\ r - 1 >= row /\ r - 1 < row + Len(word)
                /\ grid[r][c] = word[r - row]
             THEN "." ELSE grid[r][c]]]

\* the cells <<r, c>> a placed word covers
WordCells(pw) ==
    {IF pw[4] = "across" THEN <<pw[2], pw[3] + i>> ELSE <<pw[2] + i, pw[3]>> :
        i \in 0..(Len(pw[1]) - 1)}

\* a variant of check_all_letters_connected that also wants the placed words
\* to be different words
check_connected_and_distinct(grid, placed_words) ==
    /\ \A j, k \in DOMAIN placed_words : j # k => placed_words[j][1] # placed_words[k][1]
    /\ \A k \in DOMAIN placed_words :
          LET pw == placed_words[k]
          IN  \A i \in 0..(Len(pw[1]) - 1) :
                 SlotCell(grid, pw[2], pw[3], pw[4], i) = pw[1][i + 1]
    /\ \A pos \in UNION {WordCells(placed_words[k]) : k \in DOMAIN placed_words} :
          /\ \E k \in DOMAIN placed_words :
                LET pw == placed_words[k]
                IN  /\ pw[4] = "across"
                    /\ pos[1] = pw[2] /\ pos[2] >= pw[3] /\ pos[2] < pw[3] + Len(pw[1])
          /\ \E k \in DOMAIN placed_words :
                LET pw == placed_words[k]
                IN  /\ pw[4] = "down"
                    /\ pos[2] = pw[3] /\ pos[1] >= pw[2] /\ pos[1] < pw[2] + Len(pw[1])

\* check_all_letters_connected: every cell of every placed word holds the
\* word's letter and lies in a placed across word and in a placed down word
check_all_letters_connected(grid, placed_words) ==
    IF placed_words = <<>> THEN TRUE
    ELSE /\ \A k \in DOMAIN placed_words :
              LET pw == placed_words[k]
              IN  \A i \in 0..(Len(pw[1]) - 1) :
                     SlotCell(grid, pw[2], pw[3], pw[4], i) = pw[1][i + 1]
         /\ \A pos \in UNION {WordCells(placed_words[k]) : k \in DOMAIN placed_words} :
              /\ \E k \in DOMAIN placed_words :
                    LET pw == placed_words[k]
                    IN  /\ pw[4] = "across"
                        /\ pos[1] = pw[2] /\ pos[2] >= pw[3] /\ pos[2] < pw[3] + Len(pw[1])
              /\ \E k \in DOMAIN placed_words :
                    LET pw == placed_words[k]
                    IN  /\ pw[4] = "down"
                        /\ pos[2] = pw[3] /\ pos[1] >= pw[2] /\ pos[1] < pw[2] + Len(pw[1])

\* a variant of validate_placement without the test for conflicts with the
\* letters in the grid
validate_placement_no_conflict(index, grid, slot, word, remaining_slots) ==
    LET row == slot[1]  col == slot[2]  direction == slot[3]  length == slot[4]
        temp_grid == place_word(grid, word, row, col, direction)
    IN  /\ ~(direction = "across" /\ col + length > Width(grid))
        /\ ~(direction = "down" /\ row + length > Height(grid))
        /\ \A k \in DOMAIN remaining_slots :
              LET s == remaining_slots[k]
                  pattern == SlotLetters(temp_grid, s[1], s[2], s[3], s[4])
              IN  \/ s[3] = direction
                  \/ \A i \in DOMAIN pattern : pattern[i] = "."
                  \/ IndexGet(index, s[4], create_pattern(pattern)) # <<>>

\* validate_placement: the word fits, agrees with the letters in the grid,
\* and leaves every crossing slot among remaining_slots that holds a letter
\* with a non-empty lookup
validate_placement(index, grid, slot, word, remaining_slots) ==
    LET row == slot[1]  col == slot[2]  direction == slot[3]  length == slot[4]
        temp_grid == place_word(grid, word, row, col, direction)
    IN  /\ ~(direction = "across" /\ col + length > Width(grid))
        /\ ~(direction = "down" /\ row + length > Height(grid))
        /\ \A i \in 0..(Len(word) - 1) :
              SlotCell(grid, row, col, direction, i) \in {".", word[i + 1]}
        /\ \A k \in DOMAIN remaining_slots :
              LET s == remaining_slots[k]
                  pattern == SlotLetters(temp_grid, s[1], s[2], s[3], s[4])
              IN  \/ s[3] = direction
                  \/ \A i \in DOMAIN pattern : pattern[i] = "."
                  \/ IndexGet(index, s[4], create_pattern(pattern)) # <<>>

-----------------------------------------------------------------------------
(* Slot scoring.  The code computes floats; the model computes the same    *)
(* value exactly, as the numerator of a fraction.  A slot's total score is *)
(* ScoreNum / (100 * (height + width) * max(height, width) * length), and  *)
(* two scores are compared by cross-multiplying with the slot lengths.     *)

\* slot_attempts_count.get(key, 0)
AttemptsGet(attempts, key) ==
    IF \E i \in DOMAIN attempts : attempts[i][1] = key
    THEN attempts[CHOOSE i \in DOMAIN attempts : attempts[i][1] = key][2]
    ELSE 0

\* slot_attempts_count[key] = count: a new key goes to the end of the items
AttemptsPut(attempts, key, count) ==
    IF \E i \in DOMAIN attempts : attempts[i][1] = key
    THEN [i \in DOMAIN attempts |->
             IF attempts[i][1] = key THEN <<key, count>> ELSE attempts[i]]
    ELSE Append(attempts, <<key, count>>)

\* get_slot_length: the cells from (row, col) up to the next '#' or the edge
RECURSIVE get_slot_length_from(_, _, _, _, _)
get_slot_length_from(grid, row, col, direction, length) ==
    IF direction = "across"
    THEN IF col + length < Width(grid) /\ Cell(grid, row, col + length) # "#"
         THEN get_slot_length_from(grid, row, col, direction, length + 1) ELSE length
    ELSE IF row + length < Height(grid) /\ Cell(grid, row + length, col) # "#"
         THEN get_slot_length_from(grid, row, col, direction, length + 1) ELSE length

get_slot_length(grid, row, col, direction) == get_slot_length_from(grid, row, col, direction, 0)

\* count_existing_letters: the non-'.' cells among the first get_slot_length cells
count_existing_letters(grid, slot) ==
    Cardinality({i \in 0..(get_slot_length(grid, slot[1], slot[2], slot[3]) - 1) :
                    SlotCell(grid, slot[1], slot[2], slot[3], i) # "."})

\* count_intersections: per placed word of the other direction, the cells of the
\* slot's run the word passes through
count_intersections_one(grid, slot, pw) ==
    LET row == slot[1]  col == slot[2]  direction == slot[3]
        n == get_slot_length(grid, row, col, direction)
    IN  IF pw[4] = direction THEN 0
        ELSE IF direction = "across"
             THEN Cardinality({i \in 0..(n - 1) :
                     /\ pw[4] = "down"
                     /\ row >= pw[2] /\ row < pw[2] + Len(pw[1])
                     /\ col + i = pw[3]})
             ELSE Cardinality({i \in 0..(n - 1) :
                     /\ pw[4] = "across"
                     /\ col >= pw[3] /\ col < pw[3] + Len(pw[1])
                     /\ row + i = pw[2]})

RECURSIVE count_intersections_from(_, _, _, _)
count_intersections_from(grid, slot, placed_words, k) ==
    IF k > Len(placed_words) THEN 0
    ELSE count_intersections_one(grid, slot, placed_words[k])
         + count_intersections_from(grid, slot, placed_words, k + 1)

count_intersections(grid, slot, placed_words) ==
    count_intersections_from(grid, slot, placed_words, 1)

\* get_slot_score, in twentieths:
\*   length * 10 + existing * 5 + intersections * 3
\*   + min(30, 5 * (1 + available / 100)), or 0 in all when nothing is available,
\*   - attempt_count * 2
get_slot_score20(index, attempts, grid, slot, placed_words) ==
    LET length == slot[4]
        pattern == create_pattern(SlotLetters(grid, slot[1], slot[2], slot[3], length))
        available == Len(IndexGet(index, length, pattern))
        attempt_count == AttemptsGet(attempts, <<slot[1], slot[2], slot[3]>>)
        score == IF available = 0 THEN 0
                 ELSE 20 * (length * 10 + count_existing_letters(grid, slot) * 5
                            + count_intersections(grid, slot, placed_words) * 3)
                      + Min(600, 100 + available)
    IN  IF attempt_count > 0 THEN score - 40 * attempt_count ELSE score

\* the cells of the crossing line through offset i of the slot that are '.'
EmptySpaces(grid, slot, i) ==
    IF slot[3] = "across"
    THEN Cardinality({r \in 0..(Height(grid) - 1) : Cell(grid, r, slot[2] + i) = "."})
    ELSE Cardinality({c \in 0..(Width(grid) - 1) : Cell(grid, slot[1] + i, c) = "."})

RECURSIVE SumEmptySpaces(_, _, _)
SumEmptySpaces(grid, slot, i) ==
    IF i >= slot[4] THEN 0 ELSE EmptySpaces(grid, slot, i) + SumEmptySpaces(grid, slot, i + 1)

\* the number of 0.2 edge penalties of get_location_score
EdgeHits(grid, slot) ==
    LET row == slot[1]  col == slot[2]  direction == slot[3]  length == slot[4]
    IN  (IF row = 0 \/ row + (IF direction = "down" THEN length ELSE 1) >= Height(grid)
         THEN 1 ELSE 0)
        + (IF col = 0 \/ col + (IF direction = "across" THEN length ELSE 1) >= Width(grid)
           THEN 1 ELSE 0)

\* The candidate list both loops of select_words_recursive compute for a slot:
\* the lookup of the all-'.' pattern, replaced by the lookup of the pattern read
\* from the grid when
\*   (not valid_words and any(across letters)) if direction == "across"
\*   else any(down letters)
\* holds (the conditional expression takes the whole condition).
SlotValidWords(index, grid, slot) ==
    LET row == slot[1]  col == slot[2]  direction == slot[3]  length == slot[4]
        letters == SlotLetters(grid, row, col, direction, length)
        empty_words == IndexGet(index, length, EmptyPattern(length))
        any_letters == \E i \in DOMAIN letters : letters[i] # ""
        from_grid == IF direction = "across"
                     THEN empty_words = <<>> /\ any_letters
                     ELSE any_letters
    IN  IF from_grid THEN IndexGet(index, length, create_pattern(letters))
        ELSE empty_words

\* get_location_score * 2.0 - constraint_bonus + get_slot_score, times
\* 100 * (height + width) * max(height, width) * length
ScoreNum(index, attempts, grid, slot, placed_words) ==
    LET row == slot[1]  col == slot[2]  direction == slot[3]  length == slot[4]
        height == Height(grid)
        width == Width(grid)
        hw == height + width
        maxdim == Max(height, width)
        distance_to_center == Abs(row - (height \div 2)) + Abs(col - (width \div 2))
        crossing_slots == Cardinality({i \in 0..(length - 1) : EmptySpaces(grid, slot, i) > 0})
        potential_intersections == SumEmptySpaces(grid, slot, 0)
        attempt_penalty100 == Min(50, AttemptsGet(attempts, <<row, col, direction>>) * 2)
        nvalid == Len(SlotValidWords(index, grid, slot))
        base100 == 5 * get_slot_score20(index, attempts, grid, slot, placed_words)
    IN  (base100 + 60 - 4 * EdgeHits(grid, slot) - 2 * attempt_penalty100 - nvalid)
            * hw * maxdim * length
        - 60 * distance_to_center * maxdim * length
        + 40 * length * length * hw
        + (40 * crossing_slots + 20 * potential_intersections) * hw * maxdim

\* the ScoreNum of slots[1..k], in the order of slots
RECURSIVE SlotScores(_, _, _, _, _, _)
SlotScores(index, attempts, grid, placed_words, slots, k) ==
    IF k = 0 THEN <<>>
    ELSE Append(SlotScores(index, attempts, grid, placed_words, slots, k - 1),
                ScoreNum(index, attempts, grid, slots[k], placed_words))

\* total_score of slots[j] is strictly greater than that of slots[i]
ScoreGreater(slots, scores, j, i) ==
    scores[j] * slots[i][4] > scores[i] * slots[j][4]

\* scored_slots.sort(key = score, reverse = True): a stable sort, so slots of
\* equal score keep their order in slots.  Slot j comes before slot i when its
\* score is greater, or equal and j is earlier in slots.
SortsBefore(slots, scores, j, i) ==
    \/ ScoreGreater(slots, scores, j, i)
    \/ (j < i /\ ~ScoreGreater(slots, scores, i, j))

SortByScore(slots, scores) ==
    [p \in DOMAIN slots |->
        slots[CHOOSE i \in DOMAIN slots :
                 1 + Cardinality({j \in DOMAIN slots \ {i} :
                                     SortsBefore(slots, scores, j, i)}) = p]]

\* the slots of "for score, slot in scored_slots"; the scores are computed
\* once (written as the one element of a set) and then sorted by
scored_slots(index, attempts, grid, slots, placed_words) ==
    CHOOSE order \in
        {SortByScore(slots, scores) :
            scores \in {SlotScores(index, attempts, grid, placed_words, slots, Len(slots))}} :
        TRUE

-----------------------------------------------------------------------------
(* Candidate ordering *)

Lower == [c \in {"A", "B", "C", "R", "T"} |->
            CASE c = "A" -> "a" [] c = "B" -> "b" [] c = "C" -> "c"
              [] c = "R" -> "r" [] c = "T" -> "t"]

\* str.lower() of an upper-case word
lower(word) == [i \in DOMAIN word |-> Lower[word[i]]]

\* calculate_word_frequency: word_frequencies.get(word.lower(), 1e-6), in millionths
calculate_word_frequency(word, frequencies) ==
    IF lower(word) \in DOMAIN frequencies THEN frequencies[lower(word)] ELSE 1

\* config.word_frequency_weights[config.difficulty]
freq_weight(cfg) == cfg.word_frequency_weights[cfg.difficulty]

word_score(word, frequencies, cfg) ==
    calculate_word_frequency(word, frequencies) * freq_weight(cfg)

\* word_scores.sort(key = score, reverse = True) without jitter: a stable sort
RECURSIVE InsertWord(_, _, _, _)
InsertWord(sorted, word, frequencies, cfg) ==
    IF sorted = <<>> THEN <<word>>
    ELSE IF word_score(word, frequencies, cfg) > word_score(Head(sorted), frequencies, cfg)
         THEN <<word>> \o sorted
         ELSE <<Head(sorted)>> \o InsertWord(Tail(sorted), word, frequencies, cfg)

RECURSIVE SortWords(_, _, _, _)
SortWords(words, k, frequencies, cfg) ==
    IF k = 0 THEN <<>>
    ELSE InsertWord(SortWords(words, k - 1, frequencies, cfg), words[k], frequencies, cfg)

\* random.random() * 0.1 lies in [0, 0.1): 100000 millionths, exclusive
JitterRange == 100000

\* The orders the sort can give when every score gets its own jitter: word b can
\* come after word a exactly when score(b) - score(a) < 0.1.
JitterOrders(words, frequencies, cfg) ==
    {[i \in DOMAIN words |-> words[p[i]]] :
        p \in {q \in Permutations(DOMAIN words) :
                 \A i, k \in DOMAIN words :
                    i < k => word_score(words[q[k]], frequencies, cfg)
                             - word_score(words[q[i]], frequencies, cfg) < JitterRange}}

\* the sorted word_scores of a slot entered for the attempts_for_slot-th time:
\* randomization_factor = 0.1 * (attempts_for_slot > 2)
WordOrders(words, attempts_for_slot, frequencies, cfg) ==
    IF attempts_for_slot > 2 THEN JitterOrders(words, frequencies, cfg)
    ELSE {SortWords(words, Len(words), frequencies, cfg)}

\* stats.dynamic_max_backtrack is kept as a multiple of 1 / BacktrackScale
BacktrackScale == 2 ^ 8

\* int(local_max_backtrack): stats.dynamic_max_backtrack, or for a slot entered
\* more than 3 times min(10000, dynamic_max_backtrack * (1 + attempts / 10))
local_max_backtrack(dynamic_max_backtrack, attempts_for_slot) ==
    IF attempts_for_slot > 3
    THEN Min(10000, (dynamic_max_backtrack * (10 + attempts_for_slot))
                        \div (10 * BacktrackScale))
    ELSE dynamic_max_backtrack \div BacktrackScale

\* seq[:n]
Truncate(seq, n) == SubSeq(seq, 1, Min(n, Len(seq)))

-----------------------------------------------------------------------------
(* try_slot and the nodes of the search *)

\* DEFAULT_MAX_BACKTRACK of config.py, a file that is not among the sources:
\* the default the specification documents for max_backtrack
DEFAULT_MAX_BACKTRACK == 500

\* CrosswordStats(): a fresh statistics object
CrosswordStats ==
    [attempts |-> 0, backtracks |-> 0, words_tried |-> 0, successful_placements |-> 0,
     failed_placements |-> 0, time_spent |-> 0,
     dynamic_max_backtrack |-> DEFAULT_MAX_BACKTRACK * BacktrackScale]

\* placement_cache[key] = value
CachePut(cache, key, value) ==
    IF key \in DOMAIN cache THEN [cache EXCEPT ![key] = value] ELSE cache @@ (key :> value)

\* a variant of remaining_slots that keeps the slot that is being filled
RemainingSlotsKeepingSlot(slots, slot) == slots

\* remaining_slots = [s for s in slots if s != slot]
RemainingSlots(slots, slot) == SelectSeq(slots, LAMBDA s : s # slot)

\* a variant of the early validation that lets every placement pass
EarlyValidationSkipped(index, new_grid, remaining_slots) == TRUE

\* "Early validation of remaining slots" of try_slot: every remaining slot's
\* pattern in the new grid has a non-empty lookup
EarlyValidation(index, new_grid, remaining_slots) ==
    \A k \in DOMAIN remaining_slots :
        LET s == remaining_slots[k]
        IN  IndexGet(index, s[4],
                     create_pattern(SlotLetters(new_grid, s[1], s[2], s[3], s[4]))) # <<>>

\* a variant of TrySlotStart that goes on without adding the word to
\* placed_words
TrySlotStartNoAppend(cache, index, grid, slot, word, remaining_slots, placed_words) ==
    LET cache_key == <<word, slot[1], slot[2], slot[3]>>
    IN  IF cache_key \in DOMAIN cache /\ ~cache[cache_key]
        THEN [kind |-> "cached", cache |-> cache, grid |-> grid, placed_words |-> placed_words]
        ELSE [kind |-> "recurse", cache |-> CachePut(cache, cache_key, TRUE),
              grid |-> place_word(grid, word, slot[1], slot[2], slot[3]),
              placed_words |-> placed_words]

\* try_slot up to its recursive call.  kind is what happens:
\*   "cached"  the cache holds False for the key: return (None, None)
\*   "invalid" validate_placement fails: cache False, return (None, None)
\*   "blocked" the early validation fails: cache True, return (None, None)
\*   "recurse" select_words_recursive is called on new_grid, remaining_slots
TrySlotStart(cache, index, grid, slot, word, remaining_slots, placed_words) ==
    LET row == slot[1]  col == slot[2]  direction == slot[3]
        cache_key == <<word, row, col, direction>>
        new_grid == place_word(grid, word, row, col, direction)
    IN  IF cache_key \in DOMAIN cache /\ ~cache[cache_key]
        THEN [kind |-> "cached", cache |-> cache, grid |-> grid, placed_words |-> placed_words]
        ELSE IF ~validate_placement(index, grid, slot, word, remaining_slots)
        THEN [kind |-> "invalid", cache |-> CachePut(cache, cache_key, FALSE),
              grid |-> grid, placed_words |-> placed_words]
        ELSE IF ~EarlyValidation(index, new_grid, remaining_slots)
        THEN [kind |-> "blocked", cache |-> CachePut(cache, cache_key, TRUE),
              grid |-> grid, placed_words |-> placed_words]
        ELSE [kind |-> "recurse", cache |-> CachePut(cache, cache_key, TRUE),
              grid |-> new_grid,
              placed_words |-> Append(placed_words, <<word, row, col, direction>>)]

\* One call of select_words_recursive.  phase is where the call stands:
\*   "enter"  just called
\*   "slot"   at the head of "for score, slot in scored_slots", before order[si]
\*   "word"   at the head of the word loop of order[si], before words[wi]; while
\*            a child call runs, wi is the word being tried
\*   "return" about to return ret
NewFrame(grid, slots, placed_words) ==
    [grid |-> grid, slots |-> slots, placed_words |-> placed_words, phase |-> "enter",
     order |-> <<>>, si |-> 0, words |-> <<>>, wi |-> 0, ret |-> NoResult]

\* try_slot never passes depth, so every call runs with the default depth = 0
Depth == 0

\* a variant of EnterFrame that returns the grid at every node that has no
\* slots left, connected or not
EnterFrameUnchecked(f, index, attempts, cfg, time_spent) ==
    IF Depth > Len(f.slots) * 3 THEN [f EXCEPT !.phase = "return", !.ret = NoResult]
    ELSE IF time_spent > cfg.timeout THEN [f EXCEPT !.phase = "return", !.ret = NoResult]
    ELSE IF f.slots = <<>>
    THEN [f EXCEPT !.phase = "return", !.ret = <<f.grid, f.placed_words>>]
    ELSE [f EXCEPT !.phase = "slot", !.si = 1,
                   !.order = scored_slots(index, attempts, f.grid, f.slots, f.placed_words)]

\* The head of select_words_recursive, with time_spent just updated: the frame
\* returns (depth, timeout, or no slots left) or gets its sorted slots.
EnterFrame(f, index, attempts, cfg, time_spent) ==
    IF Depth > Len(f.slots) * 3 THEN [f EXCEPT !.phase = "return", !.ret = NoResult]
    ELSE IF time_spent > cfg.timeout THEN [f EXCEPT !.phase = "return", !.ret = NoResult]
    ELSE IF f.slots = <<>>
    THEN [f EXCEPT !.phase = "return",
                   !.ret = IF check_all_letters_connected(f.grid, f.placed_words)
                           THEN <<f.grid, f.placed_words>> ELSE NoResult]
    ELSE [f EXCEPT !.phase = "slot", !.si = 1,
                   !.order = scored_slots(index, attempts, f.grid, f.slots, f.placed_words)]

\* The head of the slot loop for order[si], the slot's attempt count already
\* incremented to attempts_for_slot: the frames the loop can go on with.
SlotFrames(f, index, frequencies, cfg, dynamic_max_backtrack, attempts_for_slot) ==
    LET slot == f.order[f.si]
        valid_words == SlotValidWords(index, f.grid, slot)
        limit == local_max_backtrack(dynamic_max_backtrack, attempts_for_slot)
    IN  IF valid_words = <<>>
        THEN {[f EXCEPT !.si = @ + 1]}
        ELSE {[f EXCEPT !.phase = "word", !.wi = 1, !.words = Truncate(ws, limit)] :
                 ws \in WordOrders(valid_words, attempts_for_slot, frequencies, cfg)}

\* handle_backtrack(slot) followed by stats.failed_placements += 1
HandleBacktrack(st) ==
    [st EXCEPT !.backtracks = @ + 1, !.failed_placements = @ + 2]

\* a variant of AdvanceWord for a try_slot that writes the word into the
\* caller's grid and does not take it out again
AdvanceWordKeepingLetters(f) ==
    LET slot == f.order[f.si]
        kept == place_word(f.grid, f.words[f.wi], slot[1], slot[2], slot[3])
    IN  IF f.wi + 1 > Len(f.words)
        THEN [f EXCEPT !.phase = "slot", !.si = @ + 1, !.grid = kept]
        ELSE [f EXCEPT !.wi = @ + 1, !.grid = kept]

\* the frame after the word loop's current word has failed: the next word, or
\* the next slot when the words are used up
AdvanceWord(f) ==
    IF f.wi + 1 > Len(f.words) THEN [f EXCEPT !.phase = "slot", !.si = @ + 1]
    ELSE [f EXCEPT !.wi = @ + 1]

Top(stack) == stack[Len(stack)]

SetTop(stack, f) == [stack EXCEPT ![Len(stack)] = f]

Pop(stack) == SubSeq(stack, 1, Len(stack) - 1)

-----------------------------------------------------------------------------
(* final_fill_impossible_spaces, the last resort of main *)

SetCell(grid, r, c, v) == [grid EXCEPT ![r + 1][c + 1] = v]

\* new_grid[...] = "#" at offset i of the slot
BlackenAt(grid, slot, i) ==
    IF slot[3] = "across" THEN SetCell(grid, slot[1], slot[2] + i, "#")
    ELSE SetCell(grid, slot[1] + i, slot[2], "#")

\* "for i in range(length): new_grid[...] = '#'", from offset i on
RECURSIVE BlackenSlot(_, _, _)
BlackenSlot(grid, slot, i) ==
    IF i >= slot[4] THEN grid ELSE BlackenSlot(BlackenAt(grid, slot, i), slot, i + 1)

\* next((s for s in slots if s[0] == row and s[1] == col and s[2] == direction), None)
MatchingSlots(slots, key) ==
    SelectSeq(slots, LAMBDA s : <<s[1], s[2], s[3]>> = key)

\* pairs.sort(key = count), reversed for the high-attempt slots: a stable
\* sort of pairs <<slot, count>>.  Pair j comes before pair i when its count
\* is on the right side of i's, or equal and j is earlier in pairs.
PairSortsBefore(pairs, descending, j, i) ==
    \/ (IF descending THEN pairs[j][2] > pairs[i][2] ELSE pairs[j][2] < pairs[i][2])
    \/ (j < i /\ pairs[j][2] = pairs[i][2])

SortPairs(pairs, descending) ==
    [p \in DOMAIN pairs |->
        pairs[CHOOSE i \in DOMAIN pairs :
                 1 + Cardinality({j \in DOMAIN pairs \ {i} :
                                     PairSortsBefore(pairs, descending, j, i)}) = p]]

\* the items of slot_attempts_count with count > 5 and a slot of that key
RECURSIVE HighAttemptSlots(_, _, _)
HighAttemptSlots(attempts, slots, k) ==
    IF k > Len(attempts) THEN <<>>
    ELSE LET matching == MatchingSlots(slots, attempts[k][1])
         IN  (IF attempts[k][2] > 5 /\ matching # <<>>
              THEN <<<<matching[1], attempts[k][2]>>>> ELSE <<>>)
             \o HighAttemptSlots(attempts, slots, k + 1)

\* "First process slots that have no valid words": the slots k.. of the loop
RECURSIVE FillFirstPass(_, _, _, _, _)
FillFirstPass(index, grid, slots, k, acc) ==
    IF k > Len(slots) THEN acc
    ELSE LET slot == slots[k]
             pattern == create_pattern(SlotLetters(grid, slot[1], slot[2], slot[3], slot[4]))
             valid_words == IndexGet(index, slot[4], pattern)
         IN  FillFirstPass(index, grid, slots, k + 1,
                 IF valid_words = <<>>
                 THEN [acc EXCEPT !.impossible_slots = Append(@, slot),
                                  !.new_grid = BlackenSlot(@, slot, 0)]
                 ELSE IF Len(valid_words) < 3
                 THEN [acc EXCEPT !.difficult_slots = Append(@, <<slot, Len(valid_words)>>)]
                 ELSE acc)

\* "If no impossible slots but have high attempt slots"
FillHighAttempt(acc, slots, high_attempt_slots) ==
    IF acc.impossible_slots = <<>> /\ high_attempt_slots # <<>>
    THEN LET slot_info == high_attempt_slots[1][1]
             s == MatchingSlots(slots, <<slot_info[1], slot_info[2], slot_info[3]>>)[1]
         IN  IF s[4] > 4
             THEN [acc EXCEPT !.new_grid = BlackenAt(@, s, s[4] \div 2),
                              !.impossible_slots = Append(@, s)]
             ELSE acc
    ELSE acc

\* a variant of FillDifficult that splits the most constrained slot also
\* when the first pass found slots without words
FillDifficultAlways(acc) ==
    IF acc.difficult_slots # <<>>
    THEN LET slot == SortPairs(acc.difficult_slots, FALSE)[1][1]
         IN  IF slot[4] > 3
             THEN [acc EXCEPT !.new_grid = BlackenAt(@, slot, slot[4] \div 2),
                              !.impossible_slots = Append(@, slot)]
             ELSE acc
    ELSE acc

\* "If still no resolution, try difficult slots"
FillDifficult(acc) ==
    IF acc.impossible_slots = <<>> /\ acc.difficult_slots # <<>>
    THEN LET slot == SortPairs(acc.difficult_slots, FALSE)[1][1]
         IN  IF slot[4] > 3
             THEN [acc EXCEPT !.new_grid = BlackenAt(@, slot, slot[4] \div 2),
                              !.impossible_slots = Append(@, slot)]
             ELSE acc
    ELSE acc

\* "try a more aggressive approach": the top 3 high-attempt slots, from k on
RECURSIVE FillBreak(_, _, _)
FillBreak(acc, high_attempt_slots, k) ==
    IF k > Min(3, Len(high_attempt_slots)) THEN acc
    ELSE LET slot == high_attempt_slots[k][1]
         IN  FillBreak(IF slot[4] > 3
                       THEN [acc EXCEPT !.new_grid = BlackenAt(@, slot, slot[4] \div 3),
                                        !.impossible_slots = Append(@, slot)]
                       ELSE acc,
                       high_attempt_slots, k + 1)

\* "If we're still stuck": only without an impossible slot and with more than
\* 2 high-attempt slots
FillStuck(acc, high_attempt_slots) ==
    IF acc.impossible_slots = <<>> /\ Len(high_attempt_slots) > 2
    THEN FillBreak(acc, high_attempt_slots, 1) ELSE acc

\* the return of final_fill_impossible_spaces
FillReturn(acc, grid, slots) ==
    IF acc.impossible_slots # <<>>
    THEN [grid |-> acc.new_grid,
          slots |-> SelectSeq(slots, LAMBDA s : s \notin Range(acc.impossible_slots))]
    ELSE [grid |-> grid, slots |-> slots]

\* final_fill_impossible_spaces(grid, slots, ...): the returned grid and
\* slots.  Each part of the function works on the value the part before it
\* left (written as the one element of a set).
final_fill_impossible_spaces(index, attempts, grid, slots) ==
    CHOOSE returned \in
        UNION {
            {FillReturn(last, grid, slots) :
                last \in {FillStuck(third, high_attempt_slots) :
                    third \in {FillDifficult(second) :
                        second \in {FillHighAttempt(first, slots, high_attempt_slots) :
                            first \in {FillFirstPass(index, grid, slots, 1,
                                          [new_grid |-> grid, impossible_slots |-> <<>>,
                                           difficult_slots |-> <<>>])}}}}} :
            high_attempt_slots \in {SortPairs(HighAttemptSlots(attempts, slots, 1), TRUE)}} :
        TRUE

-----------------------------------------------------------------------------
(* The inputs of the model *)

AAA == <<"A", "A", "A">>
AAB == <<"A", "A", "B">>
ABA == <<"A", "B", "A">>
BAB == <<"B", "A", "B">>
CAT == <<"C", "A", "T">>
CAR == <<"C", "A", "R">>
ARC == <<"A", "R", "C">>
TAR == <<"T", "A", "R">>
BBB == <<"B", "B", "B">>
ABB == <<"A", "B", "B">>
BBA == <<"B", "B", "A">>
AAAA == <<"A", "A", "A", "A">>
AAAAA == <<"A", "A", "A", "A", "A">>
AAAAB == <<"A", "A", "A", "A", "B">>

White3 == <<".", ".", ".">>

GridOpen3 == <<White3, White3, White3>>

GridRing3 == <<White3, <<".", "#", ".">>, White3>>

GridBlocks == <<<<"#", "#">>, <<"#", "#">>>>

GridShort == <<<<".", ".">>, <<".", ".">>>>

GridStray == <<<<".", ".", ".", "#">>, <<".", ".", ".", "#">>,
               <<".", ".", ".", "#">>, <<"#", "#", "#", ".">>>>

\* a 3x3 open block and, apart from it, one DOWN slot of length 4
GridTail == <<<<".", ".", ".", "#", ".">>, <<".", ".", ".", "#", ".">>,
              <<".", ".", ".", "#", ".">>, <<"#", "#", "#", "#", ".">>>>

White5 == <<".", ".", ".", ".", ".">>

GridOpen5 == <<White5, White5, White5, White5, White5>>

\* the clock readings of update_time run from 0 to MaxTime
MaxTime == 1

\* One run: the grid, the words of the word file with the number of lines each
\* has (enough for load_words to keep the word), config.timeout and
\* config.max_thread_pool_size.  A timeout of MaxTime is never exceeded.
Run(grid, words, counts, timeout, pool) ==
    [grid |-> grid, words |-> words, counts |-> counts, timeout |-> timeout, pool |-> pool]

Runs ==
    { Run(GridOpen3, <<ABA, BAB, AAA>>, <<7, 6, 5>>, MaxTime, 1),
      Run(GridOpen3, <<AAB, ABA>>, <<5, 5>>, 0, 1),
      Run(GridOpen3, <<AAB, ABA>>, <<5, 5>>, MaxTime, 1),
      Run(GridStray, <<AAA, ABA>>, <<5, 6>>, 0, 2),
      Run(GridStray, <<AAA, ABA>>, <<5, 6>>, MaxTime, 2),
      Run(GridBlocks, <<AAA>>, <<5>>, 0, 1),
      Run(GridBlocks, <<AAA>>, <<5>>, MaxTime, 1),
      Run(GridShort, <<AAA>>, <<5>>, 0, 2),
      Run(GridShort, <<AAA>>, <<5>>, MaxTime, 2),
      Run(GridOpen5, <<AAAAA>>, <<5>>, 0, 1),
      Run(GridOpen5, <<AAAAA>>, <<5>>, MaxTime, 1),
      Run(GridTail, <<AAA, AAAA>>, <<5, 5>>, MaxTime, 1) }

\* scenario S2 of the specification: the 3x3 grid with a block at the centre
RunsS2 ==
    { Run(GridRing3, <<CAT, CAR, ARC, TAR>>, <<5, 5, 5, 5>>, MaxTime, 1) }

RECURSIVE SumSeq(_, _)
SumSeq(seq, k) == IF k = 0 THEN 0 ELSE seq[k] + SumSeq(seq, k - 1)

\* load_words: word_frequencies[word] = count / total_count (in millionths)
LoadFrequencies(words, counts) ==
    [w \in Range(words) |->
        LET k == CHOOSE i \in DOMAIN words : words[i] = w
        IN  (counts[k] * 1000000) \div SumSeq(counts, Len(counts))]

-----------------------------------------------------------------------------
(* The state machine: one select_words call *)

\* none of the other calls is made
NoScan == [stage |-> "none"]

NoRandom == [stage |-> "none"]

NoGen == [pc |-> "none"]

NoTheme == [stage |-> "none"]

NoPrior == [runs |-> 0]

otherVars == <<scan, rgrid, gen, theme, prior>>

NoOther ==
    scan = NoScan /\ rgrid = NoRandom /\ gen = NoGen /\ theme = NoTheme /\ prior = NoPrior

corpusVars == <<words_by_length, word_frequencies, config, unit, otherVars>>

NewTask(word) ==
    [word |-> word, state |-> "queued", stack |-> <<>>, res |-> NoResult,
     collected |-> FALSE]

IdleFrame == [NewFrame(<<>>, <<>>, <<>>) EXCEPT !.phase = "idle"]

\* main before its loop: attempt is the loop variable, solves counts the calls
\* of select_words, outcome is "filled" after a break and "failed" after the
\* else branch of the loop
MainStart ==
    [attempt |-> 0, grid |-> <<>>, slots |-> <<>>, solves |-> 0, escapes |-> 0,
     outcome |-> "none"]

\* the state when the program starts, for one of the given runs; difficulty
\* and word_frequency_weights are the defaults documented for Config
InitRuns(runs, iterations) ==
    /\ \E run \in runs, max_grid_iterations \in iterations :
         /\ words_by_length = run.words
         /\ word_frequencies = LoadFrequencies(run.words, run.counts)
         /\ config = [timeout |-> run.timeout, max_thread_pool_size |-> run.pool,
                      difficulty |-> "easy",
                      word_frequency_weights |-> [easy |-> 1, medium |-> 0, hard |-> -1],
                      min_word_length |-> MinWordLength,
                      max_grid_iterations |-> max_grid_iterations,
                      manual_grid |-> run.grid]
    /\ word_index = <<>>
    /\ placement_cache = <<>>
    /\ slot_attempts_count = <<>>
    /\ stats = CrosswordStats
    /\ call = [grid |-> <<>>, slots |-> <<>>]
    /\ top = IdleFrame
    /\ tasks = <<>>
    /\ result = NoResult
    /\ pc = "start"
    /\ main = MainStart

\* no direct call of place_word and remove_word is made
NoUnit == [stage |-> "none"]

Init == InitRuns(Runs, {1}) /\ unit = NoUnit /\ NoOther

\* build_word_index(words_by_length)
BuildWordIndex ==
    /\ pc = "start"
    /\ word_index' = build_word_index(words_by_length)
    /\ pc' = "ready"
    /\ UNCHANGED <<corpusVars, placement_cache, slot_attempts_count, stats, call, top,
                   tasks, result, main>>

\* select_words(grid, slots, ...): a fresh stats object, the clock started, the
\* executor created and the top-level select_words_recursive called
SelectWords(grid, slots) ==
    /\ stats' = CrosswordStats
    /\ call' = [grid |-> grid, slots |-> slots]
    /\ top' = NewFrame(grid, slots, <<>>)
    /\ tasks' = <<>>
    /\ result' = NoResult

CallSelectWords ==
    /\ pc = "ready"
    /\ SelectWords(config.manual_grid, find_slots(config.manual_grid, config.min_word_length))
    /\ pc' = "solving"
    /\ UNCHANGED <<corpusVars, word_index, placement_cache, slot_attempts_count, main>>

\* the head of the top-level call: stats.attempts += 1, stats.update_time(), the
\* depth, timeout and empty-slots returns, the scoring of the slots
TopEnter ==
    /\ top.phase = "enter"
    /\ \E t \in stats.time_spent..MaxTime :
         /\ stats' = [stats EXCEPT !.attempts = @ + 1, !.time_spent = t]
         /\ top' = EnterFrame(top, word_index, slot_attempts_count, config, t)
    /\ UNCHANGED <<corpusVars, word_index, placement_cache, slot_attempts_count, call,
                   tasks, result, pc, main>>

\* the head of the top-level slot loop: the slot's attempt count, its sorted
\* candidates, and one future submitted per candidate
TopNextSlot ==
    /\ top.phase = "slot"
    /\ IF top.si > Len(top.order)
       THEN /\ top' = [top EXCEPT !.phase = "return", !.ret = NoResult]
            /\ UNCHANGED <<slot_attempts_count, tasks>>
       ELSE LET slot == top.order[top.si]
                slot_key == <<slot[1], slot[2], slot[3]>>
                attempts_for_slot == AttemptsGet(slot_attempts_count, slot_key) + 1
            IN  /\ slot_attempts_count' = AttemptsPut(slot_attempts_count, slot_key,
                                                   attempts_for_slot)
                /\ \E f \in SlotFrames(top, word_index, word_frequencies, config,
                                       stats.dynamic_max_backtrack, attempts_for_slot) :
                     IF f.phase = "word"
                     THEN /\ top' = [f EXCEPT !.phase = "wait"]
                          /\ tasks' = [k \in DOMAIN f.words |-> NewTask(f.words[k])]
                     ELSE /\ top' = f
                          /\ tasks' = <<>>
    /\ UNCHANGED <<corpusVars, word_index, placement_cache, stats, call, result, pc, main>>

Running == {k \in DOMAIN tasks : tasks[k].state = "running"}

\* a variant of TaskStart for a try_slot that writes the word into the grid
\* and the list it was given, the ones of the parent node that all the
\* futures of the slot share
TaskStartShared(k) ==
    /\ tasks[k].state = "queued"
    /\ \A j \in 1..(k - 1) : tasks[j].state # "queued"
    /\ Cardinality(Running) < config.max_thread_pool_size
    /\ LET slot == top.order[top.si]
           remaining_slots == RemainingSlots(call.slots, slot)
           r == TrySlotStart(placement_cache, word_index, top.grid, slot, tasks[k].word,
                             remaining_slots, top.placed_words)
       IN  /\ stats' = [stats EXCEPT !.words_tried = @ + 1]
           /\ placement_cache' = r.cache
           /\ top' = [top EXCEPT !.grid = r.grid, !.placed_words = r.placed_words]
           /\ tasks' = [tasks EXCEPT ![k] =
                  IF r.kind = "recurse"
                  THEN [@ EXCEPT !.state = "running",
                                 !.stack = <<NewFrame(r.grid, remaining_slots, r.placed_words)>>]
                  ELSE [@ EXCEPT !.state = "done"]]
    /\ UNCHANGED <<corpusVars, word_index, slot_attempts_count, call, result, pc, main>>

\* a worker thread takes the oldest queued future and runs try_slot up to its
\* recursive call
TaskStart(k) ==
    /\ tasks[k].state = "queued"
    /\ \A j \in 1..(k - 1) : tasks[j].state # "queued"
    /\ Cardinality(Running) < config.max_thread_pool_size
    /\ LET slot == top.order[top.si]
           remaining_slots == RemainingSlots(call.slots, slot)
           r == TrySlotStart(placement_cache, word_index, call.grid, slot, tasks[k].word,
                             remaining_slots, <<>>)
       IN  /\ stats' = [stats EXCEPT !.words_tried = @ + 1]
           /\ placement_cache' = r.cache
           /\ tasks' = [tasks EXCEPT ![k] =
                  IF r.kind = "recurse"
                  THEN [@ EXCEPT !.state = "running",
                                 !.stack = <<NewFrame(r.grid, remaining_slots, r.placed_words)>>]
                  ELSE [@ EXCEPT !.state = "done"]]
    /\ UNCHANGED <<corpusVars, word_index, slot_attempts_count, call, top, result, pc, main>>

\* the head of a nested select_words_recursive call
TaskEnter(k) ==
    /\ tasks[k].state = "running"
    /\ Top(tasks[k].stack).phase = "enter"
    /\ \E t \in stats.time_spent..MaxTime :
         /\ stats' = [stats EXCEPT !.attempts = @ + 1, !.time_spent = t]
         /\ tasks' = [tasks EXCEPT ![k].stack =
                SetTop(@, EnterFrame(Top(@), word_index, slot_attempts_count, config, t))]
    /\ UNCHANGED <<corpusVars, word_index, placement_cache, slot_attempts_count, call,
                   top, result, pc, main>>

\* the head of a nested call's slot loop
TaskNextSlot(k) ==
    /\ tasks[k].state = "running"
    /\ Top(tasks[k].stack).phase = "slot"
    /\ LET f == Top(tasks[k].stack)
       IN  IF f.si > Len(f.order)
           THEN /\ tasks' = [tasks EXCEPT ![k].stack =
                       SetTop(@, [f EXCEPT !.phase = "return", !.ret = NoResult])]
                /\ UNCHANGED slot_attempts_count
           ELSE LET slot == f.order[f.si]
                    slot_key == <<slot[1], slot[2], slot[3]>>
                    attempts_for_slot == AttemptsGet(slot_attempts_count, slot_key) + 1
                IN  /\ slot_attempts_count' = AttemptsPut(slot_attempts_count, slot_key,
                                                       attempts_for_slot)
                    /\ \E g \in SlotFrames(f, word_index, word_frequencies, config,
                                           stats.dynamic_max_backtrack, attempts_for_slot) :
                         tasks' = [tasks EXCEPT ![k].stack = SetTop(@, g)]
    /\ UNCHANGED <<corpusVars, word_index, placement_cache, stats, call, top, result, pc, main>>

\* one candidate of a nested call's word loop: try_slot up to its recursive call
TaskTryWord(k) ==
    /\ tasks[k].state = "running"
    /\ Top(tasks[k].stack).phase = "word"
    /\ LET f == Top(tasks[k].stack)
           slot == f.order[f.si]
           remaining_slots == RemainingSlots(f.slots, slot)
           r == TrySlotStart(placement_cache, word_index, f.grid, slot, f.words[f.wi],
                             remaining_slots, f.placed_words)
       IN  /\ stats' = [stats EXCEPT !.words_tried = @ + 1]
           /\ placement_cache' = r.cache
           /\ tasks' = [tasks EXCEPT ![k].stack =
                  IF r.kind = "recurse"
                  THEN Append(@, NewFrame(r.grid, remaining_slots, r.placed_words))
                  ELSE SetTop(@, AdvanceWord(f))]
    /\ UNCHANGED <<corpusVars, word_index, slot_attempts_count, call, top, result, pc, main>>

\* a nested call returns to the try_slot that made it: on a grid try_slot counts
\* a successful placement and returns the result, so its caller returns it too;
\* on (None, None) it counts the backtrack and the word loop goes on
TaskReturn(k) ==
    /\ tasks[k].state = "running"
    /\ Top(tasks[k].stack).phase = "return"
    /\ LET f == Top(tasks[k].stack)
           rest == Pop(tasks[k].stack)
       IN  /\ stats' = IF f.ret # NoResult
                       THEN [stats EXCEPT !.successful_placements = @ + 1]
                       ELSE HandleBacktrack(stats)
           /\ tasks' = [tasks EXCEPT ![k] =
                  IF rest = <<>>
                  THEN [@ EXCEPT !.state = "done", !.stack = <<>>, !.res = f.ret]
                  ELSE [@ EXCEPT !.stack =
                          IF f.ret # NoResult
                          THEN SetTop(rest, [Top(rest) EXCEPT !.phase = "return", !.ret = f.ret])
                          ELSE SetTop(rest, AdvanceWord(Top(rest)))]]
    /\ UNCHANGED <<corpusVars, word_index, placement_cache, slot_attempts_count, call,
                   top, result, pc, main>>

\* as_completed hands the main thread a finished future: a grid is returned at
\* once; after the last future without a grid the slot loop goes on
TopCollect(k) ==
    /\ top.phase = "wait"
    /\ tasks[k].state = "done"
    /\ ~tasks[k].collected
    /\ tasks' = [tasks EXCEPT ![k].collected = TRUE]
    /\ top' = IF tasks[k].res # NoResult
              THEN [top EXCEPT !.phase = "return", !.ret = tasks[k].res]
              ELSE IF \A j \in DOMAIN tasks : j # k => tasks[j].collected
              THEN [top EXCEPT !.phase = "slot", !.si = @ + 1]
              ELSE top
    /\ UNCHANGED <<corpusVars, word_index, placement_cache, slot_attempts_count, stats,
                   call, result, pc, main>>

\* the with-block of select_words ends: the executor waits for every future,
\* then select_words returns what the top-level call returned
SelectWordsReturn ==
    /\ top.phase = "return"
    /\ \A k \in DOMAIN tasks : tasks[k].state = "done"
    /\ result' = top.ret
    /\ top' = IdleFrame
    /\ tasks' = <<>>

ReturnToCaller ==
    /\ pc = "solving"
    /\ SelectWordsReturn
    /\ pc' = "done"
    /\ UNCHANGED <<corpusVars, word_index, placement_cache, slot_attempts_count, stats,
                   call, main>>

Solve ==
    \/ TopEnter
    \/ TopNextSlot
    \/ \E k \in DOMAIN tasks :
         \/ TaskStart(k)
         \/ TaskEnter(k)
         \/ TaskNextSlot(k)
         \/ TaskTryWord(k)
         \/ TaskReturn(k)
         \/ TopCollect(k)

Next ==
    \/ BuildWordIndex
    \/ CallSelectWords
    \/ Solve
    \/ ReturnToCaller

Spec == Init /\ [][Next]_vars

InitS2 == InitRuns(RunsS2, {1}) /\ unit = NoUnit /\ NoOther

SpecS2 == InitS2 /\ [][Next]_vars

\* two workers and two words that both fit every slot of the grid with a
\* block at the centre: the futures of a slot run side by side
RunsPair ==
    { Run(GridRing3, <<AAA, BBB>>, <<5, 5>>, MaxTime, 2) }

InitPair == InitRuns(RunsPair, {1}) /\ unit = NoUnit /\ NoOther

SpecPair == InitPair /\ [][Next]_vars

\* one solve whose three candidates of the first slot all pass try_slot's
\* validation, with one worker for each
RunsOrder ==
    { Run(GridOpen3, <<AAB, BBA, ABB>>, <<5, 5, 5>>, MaxTime, 3) }

InitOrder == InitRuns(RunsOrder, {1}) /\ unit = NoUnit /\ NoOther

\* the future has been taken by a worker and its nested call has not begun
AtStart(t) ==
    t.state = "running" /\ Len(t.stack) = 1 /\ t.stack[1].phase = "enter"

\* the future is inside its nested call
InFlight(t) == t.state = "running" /\ ~AtStart(t)

\* the step is a step of the nested call of future k
StepsOf(k) ==
    k \in DOMAIN tasks' /\ tasks[k].state = "running" /\ tasks'[k] # tasks[k]

\* two of the schedules of the worker threads: the workers run the nested
\* calls one after the other, in the order of submission, or with the future
\* submitted last run before the others
OneFutureAtATime ==
    \A k \in DOMAIN tasks :
        StepsOf(k) =>
            /\ \A j \in DOMAIN tasks \ {k} : ~InFlight(tasks[j])
            /\ \/ \A j \in 1..(k - 1) : tasks[j].state = "done"
               \/ k = Len(tasks) /\ \A j \in 1..(k - 1) : AtStart(tasks[j])

NextOrder == Next /\ OneFutureAtATime

SpecOrder == InitOrder /\ [][NextOrder]_vars

\* one solve with a single worker of a grid that the corpus can fill
RunsSeq ==
    { Run(GridOpen3, <<ABA, BBB, AAB>>, <<5, 5, 5>>, MaxTime, 1) }

InitSeq == InitRuns(RunsSeq, {1}) /\ unit = NoUnit /\ NoOther

SpecSeq == InitSeq /\ [][Next]_vars

-----------------------------------------------------------------------------
(* The state machine of main: the retry loop around select_words *)

\* the largest --max_grid_iterations of the model
MaxGridIterations == 2

RunsMain ==
    { Run(GridOpen3, <<AAB, ABA>>, <<5, 5>>, MaxTime, 1),
      Run(GridOpen3, <<AAA, ABA>>, <<5, 5>>, MaxTime, 1),
      Run(GridOpen5, <<AAAAA>>, <<5>>, MaxTime, 1),
      Run(GridShort, <<AAA>>, <<5>>, MaxTime, 1),
      Run(GridBlocks, <<AAA>>, <<5>>, MaxTime, 1),
      Run(GridTail, <<AAA>>, <<5>>, MaxTime, 1),
      Run(GridTail, <<AAAA>>, <<5>>, MaxTime, 1),
      Run(GridOpen5, <<AAAAB>>, <<5>>, MaxTime, 1) }

\* generate_grid(config) with --manual_grid: the grid of the string
generate_grid(cfg) == cfg.manual_grid

\* a variant of NextAttempt that stays at the same value
SameAttempt(m) == m

\* the loop "for attempt in range(...)" goes to its next value
NextAttempt(m) == [m EXCEPT !.attempt = @ + 1]

\* the head of one iteration of "for attempt in range(max_grid_iterations)":
\* the grid and its slots, "continue" on an invalid grid or no slots, else the
\* call of select_words
MainAttempt ==
    /\ pc = "ready"
    /\ main.attempt < config.max_grid_iterations
    /\ LET grid == generate_grid(config)
           slots == find_slots(grid, config.min_word_length)
       IN  IF ~is_valid_grid(grid) \/ slots = <<>>
           THEN /\ main' = NextAttempt([main EXCEPT !.grid = grid, !.slots = slots])
                /\ UNCHANGED <<stats, call, top, tasks, result, pc>>
           ELSE /\ SelectWords(grid, slots)
                /\ main' = [main EXCEPT !.grid = grid, !.slots = slots, !.solves = @ + 1]
                /\ pc' = "solving"
    /\ UNCHANGED <<corpusVars, word_index, placement_cache, slot_attempts_count>>

\* stats.dynamic_max_backtrack = min(10000, stats.dynamic_max_backtrack * 1.5)
IncreaseLimits(st) ==
    [st EXCEPT !.dynamic_max_backtrack = Min(10000 * BacktrackScale, (@ * 3) \div 2)]

\* the loop body ends after a failed select_words call, the limits raised
EndAttempt ==
    /\ stats' = IncreaseLimits(stats)
    /\ main' = NextAttempt(main)
    /\ pc' = "ready"
    /\ top' = IdleFrame
    /\ tasks' = <<>>
    /\ UNCHANGED call

\* select_words has returned to the loop body: break on a grid; else the limits
\* are raised and, on the last attempt, final_fill_impossible_spaces is tried
\* and select_words called again on a modified grid
MainCollect ==
    /\ pc = "solving"
    /\ top.phase = "return"
    /\ \A k \in DOMAIN tasks : tasks[k].state = "done"
    /\ result' = top.ret
    /\ IF top.ret # NoResult
       THEN /\ main' = [main EXCEPT !.outcome = "filled"]
            /\ pc' = "done"
            /\ top' = IdleFrame
            /\ tasks' = <<>>
            /\ UNCHANGED <<stats, call>>
       ELSE IF main.attempt = config.max_grid_iterations - 1
       THEN \E modified \in {final_fill_impossible_spaces(word_index, slot_attempts_count,
                                                            main.grid, main.slots)} :
                IF modified.grid # main.grid
                THEN /\ call' = [grid |-> modified.grid, slots |-> modified.slots]
                     /\ stats' = CrosswordStats
                     /\ top' = NewFrame(modified.grid, modified.slots, <<>>)
                     /\ tasks' = <<>>
                     /\ main' = [main EXCEPT !.solves = @ + 1, !.escapes = @ + 1]
                     /\ pc' = "escape"
                ELSE EndAttempt
       ELSE EndAttempt
    /\ UNCHANGED <<corpusVars, word_index, placement_cache, slot_attempts_count>>

\* the select_words call on the modified grid has returned: break on a grid,
\* else the last iteration ends
MainEscapeCollect ==
    /\ pc = "escape"
    /\ SelectWordsReturn
    /\ IF top.ret # NoResult
       THEN /\ main' = [main EXCEPT !.outcome = "filled"]
            /\ pc' = "done"
       ELSE /\ main' = NextAttempt(main)
            /\ pc' = "ready"
    /\ UNCHANGED <<corpusVars, word_index, placement_cache, slot_attempts_count, stats,
                   call>>

\* the loop ran out of attempts: its else branch reports the failure
MainExhausted ==
    /\ pc = "ready"
    /\ main.attempt >= config.max_grid_iterations
    /\ main' = [main EXCEPT !.outcome = "failed"]
    /\ pc' = "done"
    /\ UNCHANGED <<corpusVars, word_index, placement_cache, slot_attempts_count, stats,
                   call, top, tasks, result>>

InitMain == InitRuns(RunsMain, 1..MaxGridIterations) /\ unit = NoUnit /\ NoOther

NextMain ==
    \/ BuildWordIndex
    \/ MainAttempt
    \/ Solve
    \/ MainCollect
    \/ MainEscapeCollect
    \/ MainExhausted

SpecMain == InitMain /\ [][NextMain]_vars

\* main runs in one process, and the executor's threads run to completion
FairSpecMain == SpecMain /\ WF_vars(NextMain)

-----------------------------------------------------------------------------
(* place_word and remove_word called directly *)

UnitGrids == {GridOpen3, GridRing3}

UnitWords == {AAA, ABA, BAB}

\* the word fits the slot and agrees with the letters the grid holds there
Agrees(grid, slot, word) ==
    /\ Len(word) = slot[4]
    /\ \A i \in 0..(slot[4] - 1) :
          SlotCell(grid, slot[1], slot[2], slot[3], i) \in {".", word[i + 1]}

\* unit holds the slots of the empty grid (slots) and, of the call, the
\* grid before it (grid), the slot and the word, the result of place_word
\* (placed) and of remove_word on it (removed)
UnitStart(slots, grid) ==
    [stage |-> "ready", slots |-> slots, grid |-> grid, slot |-> <<>>, word |-> <<>>,
     placed |-> <<>>, removed |-> <<>>]

InitUnit ==
    /\ InitRuns({Run(GridOpen3, <<AAA, ABA, BAB>>, <<5, 5, 5>>, MaxTime, 1)}, {1})
    /\ \E grid \in UnitGrids : unit = UnitStart(find_slots(grid, MinWordLength), grid)
    /\ NoOther

searchVars == <<word_index, placement_cache, slot_attempts_count, stats, call, top, tasks,
                result, pc, main>>

\* place_word(grid, word, row, col, direction) for a slot and a word that
\* agrees with the grid
PlaceWord ==
    /\ unit.stage = "ready"
    /\ \E word \in UnitWords :
         \E k \in DOMAIN unit.slots :
            LET slot == unit.slots[k]
            IN  /\ Agrees(unit.grid, slot, word)
                /\ unit' = [unit EXCEPT
                       !.stage = "placed", !.slot = slot, !.word = word,
                       !.placed = place_word(unit.grid, word, slot[1], slot[2], slot[3])]
    /\ UNCHANGED <<words_by_length, word_frequencies, config, searchVars, otherVars>>

\* remove_word(placed, word, row, col, direction)
RemoveWord ==
    /\ unit.stage = "placed"
    /\ unit' = [unit EXCEPT
           !.stage = "removed",
           !.removed = remove_word(unit.placed, unit.word, unit.slot[1], unit.slot[2],
                                   unit.slot[3])]
    /\ UNCHANGED <<words_by_length, word_frequencies, config, searchVars, otherVars>>

\* the caller goes on with the grid that holds the word
KeepWord ==
    /\ unit.stage = "placed"
    /\ unit' = UnitStart(unit.slots, unit.placed)
    /\ UNCHANGED <<words_by_length, word_frequencies, config, searchVars, otherVars>>

\* the caller goes on with the grid remove_word returned
DropWord ==
    /\ unit.stage = "removed"
    /\ unit' = UnitStart(unit.slots, unit.removed)
    /\ UNCHANGED <<words_by_length, word_frequencies, config, searchVars, otherVars>>

NextUnit == PlaceWord \/ RemoveWord \/ KeepWord \/ DropWord

SpecUnit == InitUnit /\ [][NextUnit]_vars

-----------------------------------------------------------------------------
(* crossword_generator.py: CrosswordGenerator and generate_themed_crossword. *)
(* A template is [grid, slots, theme_slots]; a slot of a template is        *)
(* [id, direction, length, cells], its cells the <<row, col>> pairs in      *)
(* order; theme_slots is the list of the ids of the declared theme slots.   *)


\* the template's entry for a slot <<row, col, direction, length>> of its grid
TemplateSlot(id, slot) ==
    [id |-> id, direction |-> slot[3], length |-> slot[4],
     cells |-> [i \in 1..slot[4] |->
                  IF slot[3] = "across" THEN <<slot[1], slot[2] + i - 1>>
                  ELSE <<slot[1] + i - 1, slot[2]>>]]

\* a template file's entry for the grid: its slots, numbered, and the ids of
\* its theme slots
Template(grid, theme_slots) ==
    [grid |-> grid,
     slots |-> [k \in DOMAIN find_slots(grid, MinWordLength) |->
                  TemplateSlot(k, find_slots(grid, MinWordLength)[k])],
     theme_slots |-> theme_slots]

\* validate_theme_entry with its default lengths
MinThemeLength == 3

MaxThemeLength == 15

\* validate_theme_entry: is_valid (the entries of the model are single
\* upper-case words of letters)
validate_theme_entry(word_database, theme_entry) ==
    /\ Len(theme_entry) >= MinThemeLength
    /\ Len(theme_entry) <= MaxThemeLength
    /\ (theme_entry \in Range(word_database) \/ lower(theme_entry) \in Range(word_database))

\* candidate_slots.sort(key=lambda s: abs(s["length"] - entry_length)): a
\* stable sort
RECURSIVE InsertByDistance(_, _, _)
InsertByDistance(sorted, slot, entry_length) ==
    IF sorted = <<>> THEN <<slot>>
    ELSE IF Abs(slot.length - entry_length) < Abs(Head(sorted).length - entry_length)
         THEN <<slot>> \o sorted
         ELSE <<Head(sorted)>> \o InsertByDistance(Tail(sorted), slot, entry_length)

RECURSIVE SortByDistance(_, _, _)
SortByDistance(slots, k, entry_length) ==
    IF k = 0 THEN <<>>
    ELSE InsertByDistance(SortByDistance(slots, k - 1, entry_length), slots[k],
                          entry_length)

\* find_suitable_slots: the slots of the entry's length among the declared
\* theme slots, or among all slots when none is declared.  With no suitable
\* slot the code sorts candidate_slots, which is the list template["slots"]
\* itself when no theme slot is declared, and reads candidate_slots[0], an
\* IndexError without candidates.  slots is template["slots"] after the call.
find_suitable_slots(template, theme_entry) ==
    LET candidate_slots ==
            IF template.theme_slots # <<>>
            THEN SelectSeq(template.slots, LAMBDA t : t.id \in Range(template.theme_slots))
            ELSE template.slots
        suitable_slots == SelectSeq(candidate_slots, LAMBDA t : t.length = Len(theme_entry))
    IN  [raised |-> IF suitable_slots = <<>> /\ candidate_slots = <<>>
                    THEN "IndexError" ELSE "",
         suitable_slots |-> suitable_slots,
         slots |-> IF suitable_slots = <<>> /\ template.theme_slots = <<>>
                   THEN SortByDistance(template.slots, Len(template.slots),
                                       Len(theme_entry))
                   ELSE template.slots]

\* grid[row][col] = word[i] for the cells of the slot
PlaceInCells(grid, cells, word) ==
    [r \in DOMAIN grid |-> [c \in DOMAIN grid[r] |->
        IF \E i \in DOMAIN cells : cells[i] = <<r - 1, c - 1>>
        THEN word[CHOOSE i \in DOMAIN cells : cells[i] = <<r - 1, c - 1>>]
        ELSE grid[r][c]]]

\* place_theme_entry once chosen_slot is drawn: the working template
place_theme_entry(template, theme_entry, chosen_slot) ==
    [grid |-> PlaceInCells(template.grid, chosen_slot.cells, theme_entry),
     slots |-> template.slots,
     theme_slots |-> template.theme_slots,
     filled_slots |-> (chosen_slot.id :> theme_entry),
     theme_entries |-> (chosen_slot.id :> theme_entry)]

\* generate_crossword without a theme entry: the template with no slot filled
NoThemeTemplate(template) ==
    [grid |-> template.grid, slots |-> template.slots,
     theme_slots |-> template.theme_slots,
     filled_slots |-> <<>>, theme_entries |-> <<>>]

\* get_slot_by_id
get_slot_by_id(template, slot_id) ==
    template.slots[CHOOSE k \in DOMAIN template.slots : template.slots[k].id = slot_id]

\* slot["cells"].index(cell): the 0-based position of the cell in the slot
CellIndex(slot, cell) ==
    (CHOOSE j \in DOMAIN slot.cells : slot.cells[j] = cell) - 1

\* get_intersecting_slots: the number of entries of the returned list
CountIntersections(template, slot_id) ==
    LET target == get_slot_by_id(template, slot_id)
    IN  Cardinality({<<k, i>> \in (DOMAIN template.slots) \X (DOMAIN target.cells) :
                        /\ template.slots[k].id # slot_id
                        /\ target.cells[i] \in Range(template.slots[k].cells)})

\* sorted(..., key = number of intersections, reverse = True): a stable sort
\* of the slots that are not filled
UnfilledSlots(template, filled_slots) ==
    SelectSeq(template.slots, LAMBDA t : t.id \notin DOMAIN filled_slots)

sorted_slots(template, filled_slots) ==
    LET open == UnfilledSlots(template, filled_slots)
        key == [k \in DOMAIN open |-> CountIntersections(template, open[k].id)]
    IN  [p \in DOMAIN open |->
            open[CHOOSE i \in DOMAIN open :
                    1 + Cardinality({j \in DOMAIN open \ {i} :
                            key[j] > key[i] \/ (key[j] = key[i] /\ j < i)}) = p]]

\* get_letter_at_position; "" stands for None, which the caller's test
\* `if letter` treats alike
get_letter_at_position(filled_slots, slot_id, position) ==
    IF slot_id \in DOMAIN filled_slots /\ position >= 0
          /\ position < Len(filled_slots[slot_id])
    THEN filled_slots[slot_id][position + 1] ELSE ""

\* fixed_letters of fill_grid_with_constraints: position in the slot -> the
\* letter of the last filled slot of the template that holds the cell
fixed_letters(template, filled_slots, slot) ==
    LET others(i) == {k \in DOMAIN template.slots :
                        /\ template.slots[k].id # slot.id
                        /\ template.slots[k].id \in DOMAIN filled_slots
                        /\ slot.cells[i + 1] \in Range(template.slots[k].cells)
                        /\ get_letter_at_position(filled_slots, template.slots[k].id,
                               CellIndex(template.slots[k], slot.cells[i + 1])) # ""}
        last(i) == template.slots[CHOOSE k \in others(i) : \A j \in others(i) : j <= k]
    IN  [i \in {j \in 0..(Len(slot.cells) - 1) : others(j) # {}} |->
            get_letter_at_position(filled_slots, last(i).id,
                                   CellIndex(last(i), slot.cells[i + 1]))]

\* a variant of get_possible_words that does not look at the fixed letters
get_possible_words_any_letters(word_database, slot, fixed) ==
    SelectSeq(word_database, LAMBDA w : Len(w) = slot.length)

\* get_possible_words: the words of the slot's length that have the fixed
\* letters
get_possible_words(word_database, slot, fixed) ==
    SelectSeq(SelectSeq(word_database, LAMBDA w : Len(w) = slot.length),
              LAMBDA w : \A pos \in DOMAIN fixed :
                            ~(pos >= 0 /\ pos < Len(w) /\ w[pos + 1] # fixed[pos]))

\* backtracking_fill's default max_attempts
BacktrackingFillAttempts == 20

\* generate_themed_crossword is called with max_attempts from 1 to MaxGenAttempts
MaxGenAttempts == 2

\* One call of generate_themed_crossword: the template, the word database of
\* the generator, the theme entry (has_theme: one is given) and max_attempts
GenRun(template, word_database, has_theme, theme_entry, max_attempts) ==
    [template |-> template, word_database |-> word_database, has_theme |-> has_theme,
     theme_entry |-> theme_entry, max_attempts |-> max_attempts]

GenRuns ==
    UNION {{GenRun(Template(GridOpen3, <<>>), <<AAA, ABA, BAB>>, TRUE, ABA, n),
            GenRun(Template(GridOpen3, <<1>>), <<AAB>>, TRUE, AAB, n),
            GenRun(Template(GridTail, <<1>>), <<AAA, AAAA>>, TRUE, AAAA, n),
            GenRun(Template(GridTail, <<>>), <<AAA, AAAA>>, TRUE, AAAA, n),
            GenRun(Template(GridTail, <<>>), <<AAA, AAAAA>>, TRUE, AAAAA, n),
            GenRun(Template(GridOpen3, <<>>), <<AAA>>, TRUE, CAT, n),
            GenRun(Template(GridOpen3, <<>>), <<AAA>>, FALSE, <<>>, n)} :
           n \in 1..MaxGenAttempts}

\* the local variable crossword of generate_themed_crossword: not yet bound,
\* None, or the dictionary fill_grid_with_constraints returned
Unbound == [kind |-> "unbound"]

NoneCrossword == [kind |-> "None"]

Crossword(grid, filled_slots, theme_entries) ==
    [kind |-> "dict", grid |-> grid, filled_slots |-> filled_slots,
     theme_entries |-> theme_entries]

\* gen at the start of generate_themed_crossword
GenStart(run) ==
    [pc |-> "start", template |-> run.template, word_database |-> run.word_database,
     has_theme |-> run.has_theme, theme_entry |-> run.theme_entry,
     max_attempts |-> run.max_attempts, attempt |-> 0, crossword |-> Unbound,
     working |-> <<>>, fill_attempt |-> 0, fill |-> <<>>,
     outcome |-> "none", exception |-> ""]

\* the program's own state while one of the other calls is checked
InitIdle ==
    /\ InitRuns({Run(GridOpen3, <<AAA>>, <<5>>, MaxTime, 1)}, {1})
    /\ unit = NoUnit

idleVars == <<words_by_length, word_frequencies, config, searchVars, unit>>

InitGen ==
    /\ InitIdle
    /\ \E run \in GenRuns : gen = GenStart(run)
    /\ scan = NoScan /\ rgrid = NoRandom /\ theme = NoTheme /\ prior = NoPrior

\* except Exception of generate_themed_crossword: the exception of the last
\* attempt is raised again, any other is logged and the loop goes on
HandleException(g, exception) ==
    IF g.attempt = g.max_attempts - 1
    THEN [g EXCEPT !.pc = "done", !.outcome = "raised", !.exception = exception]
    ELSE [g EXCEPT !.pc = "start", !.attempt = @ + 1]

\* an iteration of generate_themed_crossword calls generate_crossword, which
\* validates the theme entry and places it; backtracking_fill follows
GenerateCrossword ==
    /\ gen.pc = "start"
    /\ gen.attempt < gen.max_attempts
    /\ IF ~gen.has_theme
       THEN gen' = [gen EXCEPT !.pc = "fill", !.fill_attempt = 0,
                               !.working = NoThemeTemplate(gen.template)]
       ELSE IF ~validate_theme_entry(gen.word_database, gen.theme_entry)
       THEN gen' = HandleException(gen, "ValueError")
       ELSE LET found == find_suitable_slots(gen.template, gen.theme_entry)
                template == [gen.template EXCEPT !.slots = found.slots]
                after == [gen EXCEPT !.template = template]
            IN  IF found.raised # ""
                THEN gen' = HandleException(after, found.raised)
                ELSE IF found.suitable_slots = <<>>
                THEN gen' = HandleException(after, "ValueError")
                ELSE \E k \in DOMAIN found.suitable_slots :
                        gen' = [after EXCEPT
                                  !.pc = "fill", !.fill_attempt = 0,
                                  !.working = place_theme_entry(template,
                                                  gen.theme_entry,
                                                  found.suitable_slots[k])]
    /\ UNCHANGED <<idleVars, scan, rgrid, theme, prior>>

\* an iteration of backtracking_fill begins fill_grid_with_constraints on
\* copies of the working template; after the last one backtracking_fill and
\* generate_crossword return None, which is not a crossword to break with
BacktrackingFill ==
    /\ gen.pc = "fill"
    /\ IF gen.fill_attempt < BacktrackingFillAttempts
       THEN gen' = [gen EXCEPT
                      !.pc = "slot",
                      !.fill = [grid |-> gen.working.grid,
                                filled_slots |-> gen.working.filled_slots,
                                order |-> sorted_slots(gen.working,
                                                       gen.working.filled_slots),
                                k |-> 1]]
       ELSE gen' = [gen EXCEPT !.pc = "start", !.attempt = @ + 1,
                               !.crossword = NoneCrossword]
    /\ UNCHANGED <<idleVars, scan, rgrid, theme, prior>>

\* the loop of fill_grid_with_constraints over sorted_slots: a random possible
\* word fills the slot; without one the call returns None and backtracking_fill
\* goes on; after the last slot the crossword is returned up to the loop of
\* generate_themed_crossword, which breaks
FillSlot ==
    /\ gen.pc = "slot"
    /\ IF gen.fill.k > Len(gen.fill.order)
       THEN gen' = [gen EXCEPT
                      !.pc = "end",
                      !.crossword = Crossword(gen.fill.grid, gen.fill.filled_slots,
                                              gen.working.theme_entries)]
       ELSE LET slot == gen.fill.order[gen.fill.k]
                possible_words ==
                    get_possible_words(gen.word_database, slot,
                        fixed_letters(gen.working, gen.fill.filled_slots, slot))
            IN  IF possible_words = <<>>
                THEN gen' = [gen EXCEPT !.pc = "fill", !.fill_attempt = @ + 1]
                ELSE \E chosen_word \in Range(possible_words) :
                        gen' = [gen EXCEPT
                                  !.fill.grid = PlaceInCells(@, slot.cells, chosen_word),
                                  !.fill.filled_slots = (slot.id :> chosen_word) @@ @,
                                  !.fill.k = @ + 1]
    /\ UNCHANGED <<idleVars, scan, rgrid, theme, prior>>

\* the loop of generate_themed_crossword ends without a crossword
AttemptsExhausted ==
    /\ gen.pc = "start"
    /\ gen.attempt >= gen.max_attempts
    /\ gen' = [gen EXCEPT !.pc = "end"]
    /\ UNCHANGED <<idleVars, scan, rgrid, theme, prior>>

\* after the loop: print_grid(crossword["grid"]), the loop over
\* crossword["filled_slots"], return crossword
PrintAndReturn ==
    /\ gen.pc = "end"
    /\ gen' = [gen EXCEPT
                 !.pc = "done",
                 !.outcome = IF gen.crossword.kind = "dict" THEN "returned" ELSE "raised",
                 !.exception = IF gen.crossword.kind = "dict" THEN ""
                               ELSE IF gen.crossword.kind = "None" THEN "TypeError"
                               ELSE "UnboundLocalError"]
    /\ UNCHANGED <<idleVars, scan, rgrid, theme, prior>>

NextGen ==
    \/ GenerateCrossword
    \/ BacktrackingFill
    \/ FillSlot
    \/ AttemptsExhausted
    \/ PrintAndReturn

SpecGen == InitGen /\ [][NextGen]_vars

-----------------------------------------------------------------------------
(* Two runs of the program on the same word file, grid and configuration.   *)
(* load_words collects the kept words in a set and appends them to          *)
(* words_by_length in the iteration order of that set, which for strings    *)
(* follows the hash seed the interpreter draws at start: every order of the *)
(* kept words is a words_by_length that load_words can return.              *)


\* the orders in which `for word in filtered_words` can give the words
SetOrders(words) ==
    {p \in [DOMAIN words -> Range(words)] : \A i, j \in DOMAIN words : p[i] = p[j] => i = j}

\* the runs on a word file with the lines of AAA and BBB, five of each, with
\* a single thread
RunsAgain ==
    {Run(GridOpen3, order, <<5, 5>>, MaxTime, 1) : order \in SetOrders(<<AAA, BBB>>)}

InitAgain ==
    /\ InitRuns(RunsAgain, {1})
    /\ unit = NoUnit
    /\ scan = NoScan /\ rgrid = NoRandom /\ gen = NoGen /\ theme = NoTheme
    /\ prior = NoPrior

\* the program is started again on the same inputs: prior keeps what the
\* first run returned, its words_by_length and its slot_attempts_count; the
\* globals are those of a new process and load_words runs again
RunAgain ==
    /\ pc = "done"
    /\ prior.runs = 0
    /\ prior' = [runs |-> 1, result |-> result, words_by_length |-> words_by_length,
                 slot_attempts_count |-> slot_attempts_count]
    /\ words_by_length' \in SetOrders(words_by_length)
    /\ word_index' = <<>>
    /\ placement_cache' = <<>>
    /\ slot_attempts_count' = <<>>
    /\ stats' = CrosswordStats
    /\ call' = [grid |-> <<>>, slots |-> <<>>]
    /\ top' = IdleFrame
    /\ tasks' = <<>>
    /\ result' = NoResult
    /\ pc' = "start"
    /\ main' = MainStart
    /\ UNCHANGED <<word_frequencies, config, unit, scan, rgrid, gen, theme>>

NextAgain ==
    \/ Next
    \/ RunAgain

SpecAgain == InitAgain /\ [][NextAgain]_vars

-----------------------------------------------------------------------------
(* theme_manager.py: generate_theme_entry.  The word database is a list of  *)
(* [word, freq, score]: the word, its frequency in the database and the     *)
(* similarity to the theme that the sentence model gives it, in hundredths. *)
(* An optional argument is the empty set for None, else the set of its      *)
(* value.                                                                   *)

\* ThemeManager.__init__
theme_entry_min_char == 5

theme_entry_max_char == 5

\* find_theme_entries' default min_frequency
DefaultMinFrequency == 20

OrDefault(optional, default) ==
    IF optional = {} THEN default ELSE CHOOSE x \in optional : TRUE

\* candidate_words of find_theme_entries: for each length of the window, the
\* entries of words_by_length[length] with freq >= min_frequency
RECURSIVE CandidateWords(_, _, _, _)
CandidateWords(database, length, max_chars, min_frequency) ==
    IF length > max_chars THEN <<>>
    ELSE SelectSeq(database, LAMBDA e : Len(e.word) = length /\ e.freq >= min_frequency)
         \o CandidateWords(database, length + 1, max_chars, min_frequency)

\* theme_entries.sort(key = score, reverse = True): a stable sort
SortBySimilarity(entries) ==
    [p \in DOMAIN entries |->
        entries[CHOOSE i \in DOMAIN entries :
                   1 + Cardinality({j \in DOMAIN entries \ {i} :
                          \/ entries[j].score > entries[i].score
                          \/ (entries[j].score = entries[i].score /\ j < i)}) = p]]

\* find_theme_entries: the list it returns and what _theme_entries_cache is
\* afterwards (the empty set for None); without candidates the cache is left
\* as it was
find_theme_entries(database, cache, min_chars, max_chars, min_frequency) ==
    LET candidate_words ==
            CandidateWords(database, OrDefault(min_chars, theme_entry_min_char),
                           OrDefault(max_chars, theme_entry_max_char), min_frequency)
    IN  IF Len(candidate_words) = 0
        THEN [theme_entries |-> <<>>, cache |-> cache]
        ELSE [theme_entries |-> SortBySimilarity(candidate_words),
              cache |-> {SortBySimilarity(candidate_words)}]

\* choose_theme_entries(number_of_theme_entries = 1, threshold, weigh_similarity,
\* min_chars, max_chars): the lists it can return.  Both random.choices with
\* the scores as weights and random.choice can give any entry with a positive
\* score.
choose_theme_entries(database, cache, threshold, min_chars, max_chars) ==
    LET theme_entries ==
            IF cache = {}
            THEN find_theme_entries(database, cache, min_chars, max_chars,
                                    DefaultMinFrequency).theme_entries
            ELSE CHOOSE c \in cache : TRUE
        filtered_entries == SelectSeq(theme_entries, LAMBDA e : e.score >= threshold)
    IN  IF filtered_entries = <<>> THEN {<<>>}
        ELSE {<<filtered_entries[i].word>> : i \in DOMAIN filtered_entries}

\* the databases of the calls: each word with one of two frequencies and one
\* of two scores
ThemeFrequencies == {10, 30}

ThemeScores == {20, 60}

ThemeDatabases ==
    {[i \in 1..4 |-> [word |-> <<AAA, AAAA, AAAAA, AAAAB>>[i], freq |-> f[i], score |-> sc[i]]] :
        f \in [1..4 -> ThemeFrequencies], sc \in [1..4 -> ThemeScores]}

\* min_chars and max_chars of a call: None or a length from 3 to 5
ThemeWindows ==
    {w \in ({{}} \cup {{n} : n \in 3..5}) \X ({{}} \cup {{n} : n \in 3..5}) :
        OrDefault(w[1], theme_entry_min_char) <= OrDefault(w[2], theme_entry_max_char)}

\* theme at the start of generate_theme_entry: a new ThemeManager
InitTheme ==
    /\ InitIdle
    /\ \E database \in ThemeDatabases, window \in ThemeWindows,
          min_frequency \in {20, 30}, similarity_threshold \in {10, 50} :
         theme = [stage |-> "start", database |-> database,
                  min_chars |-> window[1], max_chars |-> window[2],
                  min_frequency |-> min_frequency,
                  similarity_threshold |-> similarity_threshold,
                  cache |-> {}, theme_entries |-> <<>>, selected |-> <<>>]
    /\ scan = NoScan /\ rgrid = NoRandom /\ gen = NoGen /\ prior = NoPrior

\* theme_manager.find_theme_entries(min_chars, max_chars, min_frequency, ...)
FindThemeEntries ==
    /\ theme.stage = "start"
    /\ LET found == find_theme_entries(theme.database, theme.cache, theme.min_chars,
                                       theme.max_chars, theme.min_frequency)
       IN  theme' = [theme EXCEPT !.stage = "found", !.cache = found.cache,
                                  !.theme_entries = found.theme_entries]
    /\ UNCHANGED <<idleVars, scan, rgrid, gen, prior>>

\* theme_manager.choose_theme_entries(1, similarity_threshold, weigh_similarity)
\* and the return: selected is <<>> for None, else the entry
ChooseThemeEntries ==
    /\ theme.stage = "found"
    /\ \E selected \in choose_theme_entries(theme.database, theme.cache,
                                            theme.similarity_threshold, {}, {}) :
         theme' = [theme EXCEPT !.stage = "done", !.selected = selected]
    /\ UNCHANGED <<idleVars, scan, rgrid, gen, prior>>

NextTheme == FindThemeEntries \/ ChooseThemeEntries

SpecTheme == InitTheme /\ [][NextTheme]_vars

\* calls of find_theme_entries and choose_theme_entries on one ThemeManager:
\* at most MaxCalls of them
MaxCalls == 3

\* the databases of the calls: every entry similar enough to the theme, each
\* with one of the two frequencies
ManagerDatabases ==
    {database \in ThemeDatabases : \A i \in DOMAIN database : database[i].score = 60}

\* min_chars and max_chars of a call given explicitly
ManagerWindows == {w \in ThemeWindows : w[1] # {} /\ w[2] # {}}

\* a new ThemeManager: no call made, _theme_entries_cache = None
InitManager ==
    /\ InitIdle
    /\ \E database \in ManagerDatabases :
         theme = [stage |-> "manager", database |-> database, cache |-> {},
                  calls |-> 0, last |-> "none",
                  min_chars |-> {}, max_chars |-> {},
                  searched |-> <<>>, selected |-> <<>>]
    /\ scan = NoScan /\ rgrid = NoRandom /\ gen = NoGen /\ prior = NoPrior

\* a call theme_manager.find_theme_entries(min_chars, max_chars): searched is
\* the list of the most recent search
FindCall ==
    /\ theme.stage = "manager"
    /\ theme.calls < MaxCalls
    /\ \E window \in ManagerWindows :
         LET found == find_theme_entries(theme.database, theme.cache, window[1],
                                         window[2], DefaultMinFrequency)
         IN  theme' = [theme EXCEPT !.calls = @ + 1, !.last = "find",
                                    !.min_chars = window[1], !.max_chars = window[2],
                                    !.cache = found.cache,
                                    !.searched = found.theme_entries,
                                    !.selected = <<>>]
    /\ UNCHANGED <<idleVars, scan, rgrid, gen, prior>>

\* a call theme_manager.choose_theme_entries(1, threshold, True, min_chars,
\* max_chars): with _theme_entries_cache None it searches itself
ChooseCall ==
    /\ theme.stage = "manager"
    /\ theme.calls < MaxCalls
    /\ \E window \in ManagerWindows, threshold \in {10, 50} :
         LET found == find_theme_entries(theme.database, theme.cache, window[1],
                                         window[2], DefaultMinFrequency)
         IN  \E selected \in choose_theme_entries(theme.database, theme.cache,
                                                  threshold, window[1], window[2]) :
                theme' = [theme EXCEPT
                            !.calls = @ + 1, !.last = "choose",
                            !.min_chars = window[1], !.max_chars = window[2],
                            !.cache = IF theme.cache = {} THEN found.cache ELSE @,
                            !.searched = IF theme.cache = {} THEN found.theme_entries
                                         ELSE @,
                            !.selected = selected]
    /\ UNCHANGED <<idleVars, scan, rgrid, gen, prior>>

NextManager == FindCall \/ ChooseCall

SpecManager == InitManager /\ [][NextManager]_vars

-----------------------------------------------------------------------------
(* generate_grid_random(width, height, black_square_ratio).  The ratio is   *)
(* given in quarters, which floating point holds exactly, so that           *)
(* int(width * height * ratio) is (width * height * quarters) \div 4.       *)

\* width and height run from 1 to MaxSide
MaxSide == 3

RatioQuarters == {1, 2, 4}

\* the calls: every width and height up to MaxSide with every ratio, and the
\* 4x4 grid with a quarter of its cells to be blocked
RandomCalls ==
    ((1..MaxSide) \X (1..MaxSide) \X RatioQuarters) \cup {<<4, 4, 1>>}

\* a variant of place_symmetrically that blocks only the cell itself
place_one(grid, row, col) ==
    [r \in DOMAIN grid |-> [c \in DOMAIN grid[r] |->
        IF r - 1 = row /\ c - 1 = col THEN "#" ELSE grid[r][c]]]

\* place_symmetrically(row, col): the cell and its mirror image become blocks
place_symmetrically(grid, row, col) ==
    [r \in DOMAIN grid |-> [c \in DOMAIN grid[r] |->
        IF \/ r - 1 = row /\ c - 1 = col
           \/ r - 1 = Len(grid) - 1 - row /\ c - 1 = Len(grid[1]) - 1 - col
        THEN "#" ELSE grid[r][c]]]

\* the check for 2x2 blocks before placement: the three other cells of one
\* of the four 2x2 squares around (row, col) are blocks
CompletesBlock(grid, row, col) ==
    LET height == Len(grid)  width == Len(grid[1])
    IN  \/ (row > 0 /\ col > 0 /\ Cell(grid, row - 1, col) = "#"
              /\ Cell(grid, row, col - 1) = "#" /\ Cell(grid, row - 1, col - 1) = "#")
        \/ (row > 0 /\ col < width - 1 /\ Cell(grid, row - 1, col) = "#"
              /\ Cell(grid, row, col + 1) = "#" /\ Cell(grid, row - 1, col + 1) = "#")
        \/ (row < height - 1 /\ col > 0 /\ Cell(grid, row + 1, col) = "#"
              /\ Cell(grid, row, col - 1) = "#" /\ Cell(grid, row + 1, col - 1) = "#")
        \/ (row < height - 1 /\ col < width - 1 /\ Cell(grid, row + 1, col) = "#"
              /\ Cell(grid, row, col + 1) = "#" /\ Cell(grid, row + 1, col + 1) = "#")

\* is_isolated(r, c): no neighbour of the cell is white
is_isolated(grid, r, c) ==
    LET height == Len(grid)  width == Len(grid[1])
    IN  /\ ~(r > 0 /\ Cell(grid, r - 1, c) = ".")
        /\ ~(r < height - 1 /\ Cell(grid, r + 1, c) = ".")
        /\ ~(c > 0 /\ Cell(grid, r, c - 1) = ".")
        /\ ~(c < width - 1 /\ Cell(grid, r, c + 1) = ".")

\* generate_grid_random up to its loop: the white grid, with the centre
\* blocked and counted when both sides are odd
RandomStart(width, height, quarters) ==
    LET white == [r \in 1..height |-> [c \in 1..width |-> "."]]
        num_black_squares == (width * height * quarters) \div 4
        odd == width % 2 = 1 /\ height % 2 = 1
    IN  [stage |-> "loop", width |-> width, height |-> height,
         grid |-> IF odd THEN place_symmetrically(white, height \div 2, width \div 2)
                  ELSE white,
         num_black_squares |-> IF odd THEN num_black_squares - 1 ELSE num_black_squares,
         placed_count |-> 0, attempts |-> 0, max_attempts |-> width * height * 5]

InitRandom ==
    /\ InitIdle
    /\ \E c \in RandomCalls : rgrid = RandomStart(c[1], c[2], c[3])
    /\ scan = NoScan /\ gen = NoGen /\ theme = NoTheme /\ prior = NoPrior

\* one iteration of the while loop, for the cell that random.randint gives
PickCell ==
    /\ rgrid.stage = "loop"
    /\ rgrid.placed_count < rgrid.num_black_squares
    /\ rgrid.attempts < rgrid.max_attempts
    /\ \E row \in 0..(rgrid.height - 1), col \in 0..(rgrid.width - 1) :
         IF /\ Cell(rgrid.grid, row, col) = "."
            /\ ~CompletesBlock(rgrid.grid, row, col)
            /\ ~is_isolated(rgrid.grid, row, col)
         THEN rgrid' = [rgrid EXCEPT
                  !.attempts = @ + 1,
                  !.grid = place_symmetrically(@, row, col),
                  !.placed_count =
                      IF <<row, col>> # <<rgrid.height - 1 - row, rgrid.width - 1 - col>>
                      THEN @ + 2 ELSE @ + 1]
         ELSE rgrid' = [rgrid EXCEPT !.attempts = @ + 1]
    /\ UNCHANGED <<idleVars, scan, gen, theme, prior>>

\* the loop ends and the grid is returned
ReturnGrid ==
    /\ rgrid.stage = "loop"
    /\ ~(rgrid.placed_count < rgrid.num_black_squares /\ rgrid.attempts < rgrid.max_attempts)
    /\ rgrid' = [rgrid EXCEPT !.stage = "returned"]
    /\ UNCHANGED <<idleVars, scan, gen, theme, prior>>

NextRandom == PickCell \/ ReturnGrid

SpecRandom == InitRandom /\ [][NextRandom]_vars

-----------------------------------------------------------------------------
(* A call of find_slots(grid, config) on a grid of '.' and '#'. *)

\* the grids have from 1 to MaxScanSide rows and columns
MaxScanSide == 3

ScanGrids ==
    UNION {[1..height -> [1..width -> {".", "#"}]] :
              height \in 1..MaxScanSide, width \in 1..MaxScanSide}

\* config.min_word_length of the calls
ScanMinLengths == {2, 3}

InitScan ==
    /\ InitIdle
    /\ \E grid \in ScanGrids, min_word_length \in ScanMinLengths :
         scan = [stage |-> "ready", grid |-> grid, min_word_length |-> min_word_length,
                 slots |-> <<>>]
    /\ rgrid = NoRandom /\ gen = NoGen /\ theme = NoTheme /\ prior = NoPrior

\* slots = find_slots(grid, config)
FindSlots ==
    /\ scan.stage = "ready"
    /\ scan' = [scan EXCEPT !.stage = "found",
                            !.slots = find_slots(scan.grid, scan.min_word_length)]
    /\ UNCHANGED <<idleVars, rgrid, gen, theme, prior>>

NextScan == FindSlots

SpecScan == InitScan /\ [][NextScan]_vars

-----------------------------------------------------------------------------
(* Properties of what select_words returns *)

\* the letter a placed word puts on the cell pos = <<r, c>> of its range
LetterAt(pw, pos) ==
    pw[1][(IF pw[4] = "across" THEN pos[2] - pw[3] ELSE pos[1] - pw[2]) + 1]

\* the placed words of the returned list that sit on the slot
PlacedOn(placed_words, slot) ==
    {j \in DOMAIN placed_words :
        <<placed_words[j][2], placed_words[j][3], placed_words[j][4]>>
            = <<slot[1], slot[2], slot[3]>>}

\* C1: whenever select_words returns a filled grid, placed_words holds exactly
\* one word per slot it was called with, and each placed word has its slot's
\* length and is a word of the corpus of that length.
OneCorpusWordPerSlot ==
    result # NoResult =>
        /\ Len(result[2]) = Len(call.slots)
        /\ \A k \in DOMAIN call.slots :
              LET slot == call.slots[k]
                  placed == PlacedOn(result[2], slot)
              IN  /\ Cardinality(placed) = 1
                  /\ \A j \in placed :
                        /\ Len(result[2][j][1]) = slot[4]
                        /\ result[2][j][1] \in Range(WordsOfLength(words_by_length, slot[4]))

\* a grid was returned for the six slots of a 3x3 block, with two different words
SixSlotsFilled ==
    /\ result # NoResult
    /\ Len(call.slots) = 6
    /\ \E j, k \in DOMAIN result[2] : result[2][j][1] # result[2][k][1]

\* the calls of select_words_recursive that are running
Nodes ==
    (IF top.phase = "idle" THEN {} ELSE {top})
        \cup UNION {Range(tasks[k].stack) : k \in DOMAIN tasks}

\* every placed word's letters are in the grid
HoldsWords(grid, placed_words) ==
    \A j \in DOMAIN placed_words :
        \A pos \in WordCells(placed_words[j]) :
            grid[pos[1] + 1][pos[2] + 1] = LetterAt(placed_words[j], pos)

\* C2: whenever select_words returns a filled grid, two placed words that
\* share a cell have the same letter there, and the returned grid holds it.
\* The grid of every running call holds the letters of its placed words too,
\* which is how the search keeps crossing words in agreement.
CrossingWordsAgree ==
    /\ result # NoResult =>
          \A j, k \in DOMAIN result[2] :
              j # k =>
                  \A pos \in WordCells(result[2][j]) \cap WordCells(result[2][k]) :
                      /\ LetterAt(result[2][j], pos) = LetterAt(result[2][k], pos)
                      /\ result[1][pos[1] + 1][pos[2] + 1] = LetterAt(result[2][j], pos)
    /\ \A f \in Nodes : HoldsWords(f.grid, f.placed_words)

\* a returned grid in which two different words cross
DifferentWordsCross ==
    /\ result # NoResult
    /\ \E j, k \in DOMAIN result[2] :
          /\ result[2][j][1] # result[2][k][1]
          /\ WordCells(result[2][j]) \cap WordCells(result[2][k]) # {}

\* C3: whenever select_words returns a grid, no cell of it is '.': every white
\* cell of the input holds a letter.  (The code leaves the white cells that lie
\* in no slot of min_word_length as they are.)
NoEmptyCellReturned ==
    result # NoResult =>
        \A r \in DOMAIN result[1] : \A c \in DOMAIN result[1][r] : result[1][r][c] # "."

-----------------------------------------------------------------------------
(* Properties of the pattern index *)

\* the letters of the corpus
Alphabet == UNION {Range(words_by_length[k]) : k \in DOMAIN words_by_length}

\* every pattern of the length over the corpus letters and '.'
Patterns(length) == [1..length -> Alphabet \cup {"."}]

\* the word has the pattern's letter wherever the pattern has one
Matches(word, pattern) ==
    /\ Len(word) = Len(pattern)
    /\ \A i \in DOMAIN pattern : pattern[i] \in {".", word[i]}

\* C4: after build_word_index, for every length and every pattern of that
\* length the lookup holds exactly the corpus words that match the pattern.
\* (The code indexes only the patterns that fix one contiguous range.)
LookupIsMatchingWords ==
    pc = "ready" =>
        \A k \in DOMAIN words_by_length :
            \A pattern \in Patterns(Len(words_by_length[k])) :
                Range(IndexGet(word_index, Len(pattern), pattern))
                    = {w \in Range(words_by_length) : Matches(w, pattern)}

-----------------------------------------------------------------------------
(* Properties of place_word and remove_word *)

\* C5: remove_word after place_word gives back the grid the word was placed
\* into.  (The code also empties the cells that held the letter before.)
RemoveRestoresGrid ==
    unit.stage = "removed" => unit.removed = unit.grid

-----------------------------------------------------------------------------
(* The scenarios of the specification *)

\* C6: for the 3x3 grid with a block at the centre and the corpus CAT, CAR,
\* ARC, TAR, select_words returns a grid with all 4 slots filled.  (The run
\* has a timeout that is never exceeded.)
RingIsFilled ==
    (pc = "done" /\ config.manual_grid = GridRing3) =>
        /\ result # NoResult
        /\ Len(result[2]) = 4

\* the run of the 5x5 all-white grid with the one word AAAAA
SingleWordRun ==
    config.manual_grid = GridOpen5 /\ words_by_length = <<AAAAA>>

\* C7 as stated: for the 5x5 all-white grid and the one word AAAAA no attempt
\* of main returns a filled grid.
SingleWordNeverFills ==
    SingleWordRun => main.outcome # "filled"

\* C7 as the code has it: the first select_words call of main returns the
\* grid with AAAAA in all ten slots (a word may be placed any number of
\* times), and main stops there without the last resort.
SingleWordFillsAllSlots ==
    (SingleWordRun /\ pc = "done") =>
        /\ main.outcome = "filled"
        /\ main.attempt = 0 /\ main.solves = 1 /\ main.escapes = 0
        /\ result # NoResult
        /\ result[1] = [r \in 1..5 |-> AAAAA]
        /\ Len(result[2]) = 10
        /\ \A j \in DOMAIN result[2] : result[2][j][1] = AAAAA

\* main has ended on the 5x5 grid with a grid returned
SingleWordFilled ==
    SingleWordRun /\ pc = "done" /\ main.outcome = "filled" /\ Len(result[2]) = 10

\* the grid has no white cell
NoWhiteCell(grid) ==
    \A r \in DOMAIN grid : \A c \in DOMAIN grid[r] : grid[r][c] = "#"

\* C8: for a grid without a white cell the program ends with the unchanged
\* grid and no placed word.  (main never calls select_words on a grid
\* without slots: it goes to the next attempt and ends in failure.)
BlockGridIsOk ==
    (pc = "done" /\ NoWhiteCell(config.manual_grid)) =>
        /\ main.outcome = "filled"
        /\ result = <<config.manual_grid, <<>>>>

\* C9: with a timeout of 0 no word is tried or placed and no grid is
\* returned.  (The code tests time_spent > timeout, so a first clock reading
\* equal to the start time goes on with the search.)
ZeroTimeoutTriesNothing ==
    config.timeout = 0 =>
        /\ stats.words_tried = 0
        /\ stats.successful_placements = 0
        /\ result = NoResult

-----------------------------------------------------------------------------
(* Properties of the retry loop of main *)

\* what C10 says of every state of main
SupervisorInvariant ==
    /\ main.attempt <= config.max_grid_iterations
    /\ main.solves - main.escapes <= config.max_grid_iterations
    /\ main.escapes <= 1
    /\ main.escapes = 1 => main.attempt >= config.max_grid_iterations - 1
    /\ result # NoResult => (main.outcome = "filled" /\ pc = "done")
    /\ main.outcome = "filled" => (result # NoResult /\ pc = "done")
    /\ main.outcome = "failed" =>
          /\ main.attempt = config.max_grid_iterations
          /\ result = NoResult
          /\ pc = "done"

\* C10: main makes at most max_grid_iterations calls of select_words and one
\* more on the last attempt's modified grid, stops at the first call that
\* returns a grid, reports the failure only when every attempt is used up,
\* and always ends.
SupervisorBoundedAndEnds ==
    []SupervisorInvariant /\ <>(pc = "done")

\* main has reported the failure after a call on a modified grid
FailedAfterEscape ==
    main.outcome = "failed" /\ main.escapes = 1 /\ main.solves = config.max_grid_iterations + 1
        /\ config.max_grid_iterations = MaxGridIterations

-----------------------------------------------------------------------------
(* Properties of generate_themed_crossword *)

\* every attempt of generate_themed_crossword ended with backtracking_fill
\* out of attempts
FillExhausted ==
    /\ gen.pc = "done"
    /\ gen.crossword.kind = "None"
    /\ gen.attempt = gen.max_attempts

\* C11: when every fill attempt is exhausted, generate_themed_crossword
\* returns a failure value that holds no grid, and raises nothing.
ExhaustedFillReturnsFailure ==
    FillExhausted => gen.outcome = "returned" /\ gen.exception = ""


\* generate_crossword has placed the theme entry and backtracking_fill runs
ThemePlaced == gen.has_theme /\ gen.pc \in {"fill", "slot"}

\* the slot of the template with the id
SlotOfId(id) == get_slot_by_id(gen.template, id)

\* the letters the grid has in the cells of the slot
LettersIn(grid, slot) ==
    [i \in DOMAIN slot.cells |-> grid[slot.cells[i][1] + 1][slot.cells[i][2] + 1]]

\* C13: the slot S that place_theme_entry gave to the theme word W is never
\* reassigned: every attempt of backtracking_fill starts from the grid that
\* holds only W's letters, and a returned crossword has
\* filled_slots[S] = theme_entries[S] = W, W's letters in the cells of S, and
\* in every other slot a word that is in the grid, so agrees with W where it
\* crosses S.
ThemeEntryKept ==
    /\ ThemePlaced =>
          /\ Cardinality(DOMAIN gen.working.theme_entries) = 1
          /\ \A S \in DOMAIN gen.working.theme_entries :
                /\ gen.working.theme_entries[S] = gen.theme_entry
                /\ DOMAIN gen.working.filled_slots = {S}
                /\ gen.working.filled_slots[S] = gen.theme_entry
                /\ gen.working.grid =
                      PlaceInCells(gen.template.grid, SlotOfId(S).cells, gen.theme_entry)
                /\ gen.pc = "slot" =>
                      /\ S \in DOMAIN gen.fill.filled_slots
                      /\ gen.fill.filled_slots[S] = gen.theme_entry
                      /\ LettersIn(gen.fill.grid, SlotOfId(S)) = gen.theme_entry
                      /\ gen.fill.k = 1 =>
                            /\ gen.fill.grid = gen.working.grid
                            /\ DOMAIN gen.fill.filled_slots = {S}
    /\ gen.has_theme /\ gen.outcome = "returned" =>
          /\ Cardinality(DOMAIN gen.crossword.theme_entries) = 1
          /\ \A S \in DOMAIN gen.crossword.theme_entries :
                /\ gen.crossword.theme_entries[S] = gen.theme_entry
                /\ S \in DOMAIN gen.crossword.filled_slots
                /\ gen.crossword.filled_slots[S] = gen.theme_entry
                /\ LettersIn(gen.crossword.grid, SlotOfId(S)) = gen.theme_entry
                /\ \A k \in DOMAIN gen.template.slots :
                      LET T == gen.template.slots[k]
                      IN  /\ T.id \in DOMAIN gen.crossword.filled_slots
                          /\ gen.crossword.filled_slots[T.id] \in Range(gen.word_database)
                          /\ LettersIn(gen.crossword.grid, T) =
                                gen.crossword.filled_slots[T.id]

\* a crossword is returned after an attempt of backtracking_fill failed, with
\* the theme word in its slot and another word in a slot that crosses it
ThemedCrosswordReturned ==
    /\ gen.has_theme /\ gen.outcome = "returned" /\ gen.fill_attempt > 0
    /\ \E S \in DOMAIN gen.crossword.theme_entries, k \in DOMAIN gen.template.slots :
          LET T == gen.template.slots[k]
          IN  /\ T.id # S
              /\ Range(T.cells) \cap Range(SlotOfId(S).cells) # {}
              /\ gen.crossword.filled_slots[T.id] # gen.theme_entry

\* the theme entry is valid, the template declares theme slots, none of them
\* has the entry's length and another slot of the template has
NoDeclaredSlotFits ==
    /\ gen.pc # "none"
    /\ gen.has_theme
    /\ validate_theme_entry(gen.word_database, gen.theme_entry)
    /\ gen.template.theme_slots # <<>>
    /\ \A k \in DOMAIN gen.template.slots :
          gen.template.slots[k].id \in Range(gen.template.theme_slots)
             => gen.template.slots[k].length # Len(gen.theme_entry)
    /\ \E k \in DOMAIN gen.template.slots :
          gen.template.slots[k].length = Len(gen.theme_entry)

\* C14: when no declared theme slot has the length of the theme word and
\* another slot of the template has, the word is placed in such a slot and
\* the placement does not fail.
ThemeFallsBackOutsideSet ==
    NoDeclaredSlotFits /\ gen.pc = "done" =>
        /\ gen.exception # "ValueError"
        /\ gen.outcome = "returned" =>
              \E S \in DOMAIN gen.crossword.theme_entries :
                 /\ S \notin Range(gen.template.theme_slots)
                 /\ SlotOfId(S).length = Len(gen.theme_entry)


-----------------------------------------------------------------------------
(* Properties of two runs *)

\* no slot was entered more than twice, so random.random() was not called
\* (randomization_factor is 0 up to the second attempt for a slot)
NoRandomDrawn(attempts) == \A i \in DOMAIN attempts : attempts[i][2] <= 2

\* the run returned the result of the future it submitted first, the one a
\* single worker thread completes first: with equal scores and no random
\* number that future is for the first word of words_by_length
FirstFutureReturned(res, words) ==
    /\ res # NoResult
    /\ res[2] # <<>>
    /\ res[2][1][1] = words[1]

\* both runs have ended, with a single thread and without a random number,
\* each with the result of its first future
BothRunsDone ==
    /\ prior.runs = 1
    /\ pc = "done"
    /\ config.max_thread_pool_size = 1
    /\ NoRandomDrawn(prior.slot_attempts_count)
    /\ NoRandomDrawn(slot_attempts_count)
    /\ FirstFutureReturned(prior.result, prior.words_by_length)
    /\ FirstFutureReturned(result, words_by_length)

\* C12: with a single thread, two runs on the same grid, word file and
\* configuration that draw the same random numbers (here: none) return the
\* same outcome, the same grid and the same placed words.
RunsReturnTheSame ==
    BothRunsDone => result = prior.result


-----------------------------------------------------------------------------
(* Properties of generate_theme_entry *)

\* the entries of the database in the length window of the call, with at
\* least its min_frequency and at least its similarity threshold
ClearingEntries ==
    {e \in Range(theme.database) :
        /\ Len(e.word) >= OrDefault(theme.min_chars, theme_entry_min_char)
        /\ Len(e.word) <= OrDefault(theme.max_chars, theme_entry_max_char)
        /\ e.freq >= theme.min_frequency
        /\ e.score >= theme.similarity_threshold}

\* C15: generate_theme_entry returns None or a word of the length window
\* with at least min_frequency and at least the similarity threshold, and
\* None exactly when no such word is in the database.
ThemeEntryInWindow ==
    theme.stage = "done" =>
        /\ theme.selected # <<>> =>
              \E e \in ClearingEntries : e.word = theme.selected[1]
        /\ theme.selected = <<>> <=> ClearingEntries = {}


-----------------------------------------------------------------------------
(* Properties of generate_grid_random *)

\* the cells of the grid that generate_grid_random works on
RandomCells == (0..(rgrid.height - 1)) \X (0..(rgrid.width - 1))

\* C16: the blocks of the grid of generate_grid_random have 180-degree
\* rotational symmetry after every placement step and in the returned grid:
\* (r, c) is a block iff (H-1-r, W-1-c) is.
BlocksAreSymmetric ==
    rgrid.stage # "none" =>
        \A cell \in RandomCells :
            Cell(rgrid.grid, cell[1], cell[2]) = "#"
               <=> Cell(rgrid.grid, rgrid.height - 1 - cell[1],
                        rgrid.width - 1 - cell[2]) = "#"

\* a grid is returned with the loop having placed at least two pairs of blocks
SymmetricPairsPlaced ==
    rgrid.stage = "returned" /\ rgrid.placed_count >= 4

\* C17: no grid that generate_grid_random returns has a 2x2 square of four
\* blocks.
NoBlockSquareReturned ==
    rgrid.stage = "returned" =>
        ~\E cell \in RandomCells :
            /\ cell[1] < rgrid.height - 1
            /\ cell[2] < rgrid.width - 1
            /\ Cell(rgrid.grid, cell[1], cell[2]) = "#"
            /\ Cell(rgrid.grid, cell[1] + 1, cell[2]) = "#"
            /\ Cell(rgrid.grid, cell[1], cell[2] + 1) = "#"
            /\ Cell(rgrid.grid, cell[1] + 1, cell[2] + 1) = "#"

\* C18: in every grid that generate_grid_random returns every white cell has
\* a white cell above, below, left or right of it.
NoIsolatedWhiteReturned ==
    rgrid.stage = "returned" =>
        \A cell \in RandomCells :
            Cell(rgrid.grid, cell[1], cell[2]) = "."
               => \E other \in RandomCells :
                     /\ Cell(rgrid.grid, other[1], other[2]) = "."
                     /\ \/ (other[1] = cell[1] /\ (other[2] - cell[2]) \in {-1, 1})
                        \/ (other[2] = cell[2] /\ (other[1] - cell[1]) \in {-1, 1})


-----------------------------------------------------------------------------
(* Properties of find_slots *)

\* the cell of the run <<row, col, direction, length>> at offset i
RunCell(run, i) ==
    IF run[3] = "across" THEN <<run[1], run[2] + i>> ELSE <<run[1] + i, run[2]>>

\* the cell is outside the grid or a block
BlockOrEdge(grid, cell) ==
    \/ cell[1] < 0 \/ cell[1] >= Height(grid)
    \/ cell[2] < 0 \/ cell[2] >= Width(grid)
    \/ Cell(grid, cell[1], cell[2]) = "#"

\* the maximal runs of white cells of the grid, in either direction, of at
\* least minlen cells
MaximalRuns(grid, minlen) ==
    {run \in (0..(Height(grid) - 1)) \X (0..(Width(grid) - 1)) \X {"across", "down"}
                \X (1..Max(Height(grid), Width(grid))) :
        /\ run[4] >= minlen
        /\ \A i \in 0..(run[4] - 1) : ~BlockOrEdge(grid, RunCell(run, i))
        /\ BlockOrEdge(grid, RunCell(run, -1))
        /\ BlockOrEdge(grid, RunCell(run, run[4]))}

\* slot a comes before slot b: across before down, across in row-major and
\* down in column-major order
ComesBefore(a, b) ==
    \/ a[3] = "across" /\ b[3] = "down"
    \/ a[3] = "across" /\ b[3] = "across"
          /\ (a[1] < b[1] \/ (a[1] = b[1] /\ a[2] < b[2]))
    \/ a[3] = "down" /\ b[3] = "down"
          /\ (a[2] < b[2] \/ (a[2] = b[2] /\ a[1] < b[1]))

-----------------------------------------------------------------------------
(* Properties of the search states *)

\* the calls of select_words_recursive that try_slot has made and that have
\* not returned: the frames of the tasks
PlacementStates == UNION {Range(tasks[k].stack) : k \in DOMAIN tasks}

\* the words that the index holds for the pattern the slot has in the grid
GridLookup(grid, slot) ==
    IndexGet(word_index, slot[4],
             create_pattern(SlotLetters(grid, slot[1], slot[2], slot[3], slot[4])))

\* C20: in every search state that a placement leads to, that is in every
\* call of select_words_recursive made by try_slot, each slot that is still
\* to be filled has a non-empty lookup for the pattern it has in the grid of
\* that call; a placement that would leave a slot without candidates is given
\* up and no call is made for it.
OpenSlotsHaveCandidates ==
    \A f \in PlacementStates :
        \A k \in DOMAIN f.slots : GridLookup(f.grid, f.slots[k]) # <<>>

\* a call made by try_slot for a grid with two words placed has a slot to
\* fill that holds a letter
ConstrainedSlotOpen ==
    \E f \in PlacementStates :
        /\ Len(f.placed_words) >= 2
        /\ \E k \in DOMAIN f.slots :
              \E i \in 1..f.slots[k][4] :
                 SlotLetters(f.grid, f.slots[k][1], f.slots[k][2], f.slots[k][3],
                             f.slots[k][4])[i] # "."


-----------------------------------------------------------------------------
(* Properties of the nodes of the search *)

\* the calls of a task that are running before and after the step: the
\* positions that both stacks have
SameCalls(k) ==
    IF k \in DOMAIN tasks' /\ tasks[k].state = "running" /\ tasks'[k].state = "running"
    THEN 1..Min(Len(tasks[k].stack), Len(tasks'[k].stack))
    ELSE {}

\* C21: a candidate that try_slot tries and that fails (invalid placement,
\* failed early validation or failed recursion) leaves the grid and the
\* placed_words of the calling node as they were: through every step a
\* running call keeps its grid, its slots and its placed_words, so the next
\* candidate meets the cells as they were before the try.
FailedTryKeepsNode ==
    [][ /\ \A k \in DOMAIN tasks : \A i \in SameCalls(k) :
             /\ tasks'[k].stack[i].grid = tasks[k].stack[i].grid
             /\ tasks'[k].stack[i].slots = tasks[k].stack[i].slots
             /\ tasks'[k].stack[i].placed_words = tasks[k].stack[i].placed_words
        /\ (top.phase # "idle" /\ top'.phase # "idle" /\ pc' = pc) =>
             /\ top'.grid = top.grid
             /\ top'.placed_words = top.placed_words ]_vars

\* a call whose grid holds a placed word is at its second candidate for a
\* slot after the recursion for the first one failed
SecondCandidateAfterBacktrack ==
    /\ stats.backtracks > 0
    /\ \E f \in PlacementStates :
          /\ f.phase = "word"
          /\ f.wi >= 2
          /\ Len(f.placed_words) >= 1


\* the cell is a cell of a placed word of the direction
CoveredBy(placed_words, pos, direction) ==
    \E j \in DOMAIN placed_words :
        /\ placed_words[j][4] = direction
        /\ pos \in WordCells(placed_words[j])

\* every cell of every placed word holds the word's letter and is a cell of
\* a placed ACROSS word and of a placed DOWN word
LettersCrossed(grid, placed_words) ==
    /\ HoldsWords(grid, placed_words)
    /\ \A j \in DOMAIN placed_words : \A pos \in WordCells(placed_words[j]) :
          /\ CoveredBy(placed_words, pos, "across")
          /\ CoveredBy(placed_words, pos, "down")

\* C22: select_words_recursive returns a grid only at a node that has no
\* slot left to assign and whose placed words all hold their letters in the
\* grid with every cell in a placed ACROSS and a placed DOWN word; a node
\* without slots that fails this returns (None, None).  A grid that a node
\* with slots hands on comes from such a node below it: it has one placed
\* word more for each slot the node had left.
GridOnlyFromCrossedLeaf ==
    \A f \in Nodes :
        f.phase = "return" =>
            /\ f.ret # NoResult =>
                  /\ Len(f.ret[2]) = Len(f.placed_words) + Len(f.slots)
                  /\ LettersCrossed(f.ret[1], f.ret[2])
            /\ (f.slots = <<>> /\ f.ret # NoResult) => f.ret = <<f.grid, f.placed_words>>
            /\ (f.slots = <<>> /\ ~LettersCrossed(f.grid, f.placed_words)) => f.ret = NoResult

\* a node without slots returns its grid of crossed words
CrossedLeafReturnsGrid ==
    \E f \in Nodes :
        /\ f.phase = "return"
        /\ f.slots = <<>>
        /\ Len(f.placed_words) >= 2
        /\ f.ret = <<f.grid, f.placed_words>>

\* a node without slots whose words are not all crossed returns failure
\* before the time is up
UncrossedLeafFails ==
    \E f \in Nodes :
        /\ f.phase = "return"
        /\ f.slots = <<>>
        /\ f.placed_words # <<>>
        /\ ~LettersCrossed(f.grid, f.placed_words)
        /\ stats.time_spent <= config.timeout


\* C23: once the elapsed time exceeds the timeout no further candidate is
\* tried at any level: words_tried does not increase and no entry is written
\* to the placement cache.  (The time is tested at the head of each call only:
\* the word loops of the callers, and the futures still queued, go on with
\* their next candidates, each of which is validated, cached and placed
\* before its nested call returns at once.)
DescentStopsAfterTimeout ==
    [][ (pc = "solving" /\ stats.time_spent > config.timeout) =>
            /\ stats'.words_tried = stats.words_tried
            /\ placement_cache' = placement_cache ]_vars


-----------------------------------------------------------------------------
(* Properties of the retry loop's limits, counters and cache *)

\* the statistics after the limits were raised at the end of each of the
\* failed attempts before this one
RECURSIVE RaisedStats(_)
RaisedStats(attempts) ==
    IF attempts = 0 THEN CrosswordStats ELSE IncreaseLimits(RaisedStats(attempts - 1))

\* C24: the limit raised after each failed attempt of main is the one in
\* effect during the next attempt: attempt k + 1 searches with
\* min(10000, 1.5 x the max_backtrack of attempt k).  (select_words makes a
\* new CrosswordStats for every call, so each attempt searches with the
\* default again.)
RaisedLimitInEffect ==
    pc = "solving" =>
        stats.dynamic_max_backtrack = RaisedStats(main.attempt).dynamic_max_backtrack


\* the slots without a word for the pattern they have in the grid
ZeroCandidateSlots(grid, slots) ==
    {slot \in Range(slots) : GridLookup(grid, slot) = <<>>}

\* the cell <<r, c>> is a cell of the slot
InSlot(slot, r, c) ==
    IF slot[3] = "across"
    THEN r = slot[1] /\ c >= slot[2] /\ c < slot[2] + slot[4]
    ELSE c = slot[2] /\ r >= slot[1] /\ r < slot[1] + slot[4]

\* the grid with every cell of the given slots a block and every other cell
\* as it is
WithBlocks(grid, blocked) ==
    [r \in 1..Height(grid) |->
        [c \in 1..Width(grid) |->
            IF \E slot \in blocked : InSlot(slot, r - 1, c - 1)
            THEN "#" ELSE grid[r][c]]]

\* C25: on the last attempt, when some slot has no candidate for its pattern,
\* final_fill_impossible_spaces returns the input grid with every cell of
\* every such slot a block and nothing else changed, and the slot list
\* without exactly those slots; no other escape rule is applied, and the
\* grid that main passed is as it was.
EscapeBlocksZeroCandidateSlots ==
    (pc = "escape" /\ ZeroCandidateSlots(main.grid, main.slots) # {}) =>
        /\ call.grid = WithBlocks(main.grid, ZeroCandidateSlots(main.grid, main.slots))
        /\ call.slots = SelectSeq(main.slots,
               LAMBDA s : s \notin ZeroCandidateSlots(main.grid, main.slots))
        /\ main.grid = generate_grid(config)

\* the escape has blocked the slots without candidates and has left a slot
\* that the rule for difficult slots would split: longer than 3 with fewer
\* than 3 words
ZeroCandidateEscapeTaken ==
    /\ pc = "escape"
    /\ ZeroCandidateSlots(main.grid, main.slots) # {}
    /\ \E slot \in Range(call.slots) :
          /\ slot[4] > 3
          /\ Len(GridLookup(main.grid, slot)) < 3


\* C26: after an escape modification the slot list handed to the next solve
\* is the slot list of the new grid, find_slots(new grid).  (The function
\* returns the old list without the slots it blocked or split: a slot that
\* crossed a new block stays in the list with its old start and length.)
EscapeSlotsAreFoundSlots ==
    pc = "escape" => call.slots = find_slots(call.grid, config.min_word_length)


\* the cells <<row, col>> of a grid
GridCells(grid) == (0..(Height(grid) - 1)) \X (0..(Width(grid) - 1))

\* the rules of a grid: no 2x2 square of blocks, every white cell with a
\* white cell next to it, and the blocks the same after a half turn
GridRules(grid) ==
    /\ ~\E cell \in GridCells(grid) :
          /\ cell[1] < Height(grid) - 1
          /\ cell[2] < Width(grid) - 1
          /\ \A dr, dc \in {0, 1} : Cell(grid, cell[1] + dr, cell[2] + dc) = "#"
    /\ \A cell \in GridCells(grid) :
          Cell(grid, cell[1], cell[2]) = "." =>
              \E other \in GridCells(grid) :
                  /\ Cell(grid, other[1], other[2]) = "."
                  /\ Abs(other[1] - cell[1]) + Abs(other[2] - cell[2]) = 1
    /\ \A cell \in GridCells(grid) :
          Cell(grid, cell[1], cell[2]) = "#" <=>
              Cell(grid, Height(grid) - 1 - cell[1], Width(grid) - 1 - cell[2]) = "#"

\* C27: when the grid given to final_fill_impossible_spaces keeps the grid
\* rules, the grid it returns keeps them too.  (The function sets cells to
\* blocks one slot or one cell at a time, with no look at the square around
\* the cell, at its neighbours or at the cell opposite.)
EscapeKeepsGridRules ==
    (pc = "escape" /\ GridRules(main.grid)) => GridRules(call.grid)


\* C28: each solve attempt starts with every per-slot attempt counter at 0,
\* so that no count of an earlier attempt reaches the scoring, the jitter or
\* the limits of a later one.  (main empties slot_attempts_count once, before
\* its loop; select_words does not, so the second attempt and the escape
\* solve start with the counts the attempts before them left.)
AttemptStartsWithZeroCounts ==
    (pc \in {"solving", "escape"} /\ top.phase = "enter") =>
        \A i \in DOMAIN slot_attempts_count : slot_attempts_count[i][2] = 0


\* the calls of try_slot that are about to be made: the grid, the slot and
\* the word of each word loop that stands before its next word
NextTries ==
    {[grid |-> Top(tasks[k].stack).grid,
      slot |-> Top(tasks[k].stack).order[Top(tasks[k].stack).si],
      word |-> Top(tasks[k].stack).words[Top(tasks[k].stack).wi]] :
        k \in {j \in DOMAIN tasks :
                  tasks[j].state = "running" /\ Top(tasks[j].stack).phase = "word"}}

\* try_slot will return at once on the entry that the cache has for the try
CacheRejects(try) ==
    LET cache_key == <<try.word, try.slot[1], try.slot[2], try.slot[3]>>
    IN  cache_key \in DOMAIN placement_cache /\ ~placement_cache[cache_key]

\* C29: the placement cache holds the geometric fit and the fixed letters
\* only: no entry is INVALID because a crossing or remaining slot had no
\* candidates, so a cache hit never rejects a word that fits its slot and
\* agrees with the letters the current grid holds there.  (try_slot caches
\* False for every failed validate_placement, the crossing-slot lookup
\* included, under a key without the grid: the entry rejects the word in
\* every later grid.)
CacheHitRejectsOnlyMisfits ==
    \A try \in NextTries :
        CacheRejects(try) => ~Agrees(try.grid, try.slot, try.word)


\* C30: the placement cache is emptied between the attempts of main: a
\* solve, on a grid generated again or changed by the escape, starts without
\* any entry of an earlier attempt to read.  (placement_cache is a module
\* dictionary that nothing ever empties.)
AttemptStartsWithEmptyCache ==
    (pc \in {"solving", "escape"} /\ top.phase = "enter") =>
        DOMAIN placement_cache = {}


-----------------------------------------------------------------------------
(* Properties of the candidates run as futures *)

\* C31: when the first future returns a grid, the other futures of the slot
\* are stopped: from then on no sibling tries another candidate.  (The
\* as_completed loop just returns; no future is cancelled or told to stop,
\* and the with-block of select_words waits until every future, the queued
\* ones included, has run to its end.)
NoTryAfterFirstSuccess ==
    [][ (top.phase = "return" /\ top.ret # NoResult) =>
            stats'.words_tried = stats.words_tried ]_vars


\* the futures that are in their nested call
InNestedCall == {k \in DOMAIN tasks : tasks[k].state = "running"}

\* the grid holds the word's letters on the cells of the slot and is the
\* other grid everywhere else
OwnCopyWith(grid, parent, slot, word) ==
    \A cell \in GridCells(parent) :
        Cell(grid, cell[1], cell[2]) =
            IF InSlot(slot, cell[1], cell[2])
            THEN word[(IF slot[3] = "across" THEN cell[2] - slot[2] ELSE cell[1] - slot[1]) + 1]
            ELSE Cell(parent, cell[1], cell[2])

\* C32: the futures of a slot never write to a grid or a placed_words list
\* that they share: the grid and placed_words of the parent node are, while
\* the futures run and after they have finished, the ones select_words was
\* called with, and the first nested call of each future has a grid of its
\* own that differs from the parent's only by the future's word on the slot,
\* and a list of its own with that word alone.
SiblingsWriteOwnCopies ==
    top.phase # "idle" =>
        /\ top.grid = call.grid
        /\ top.placed_words = <<>>
        /\ \A k \in InNestedCall :
              LET slot == top.order[top.si]
                  first == tasks[k].stack[1]
              IN  /\ OwnCopyWith(first.grid, call.grid, slot, tasks[k].word)
                  /\ first.placed_words = <<<<tasks[k].word, slot[1], slot[2], slot[3]>>>>

\* two futures with different words are in their nested calls at once
TwoSiblingsRunning ==
    \E j, k \in InNestedCall : tasks[j].word # tasks[k].word

\* a future with another word has finished and the parent waits for a
\* sibling that is in its nested call
SiblingFinishedOtherRunning ==
    /\ top.phase = "wait"
    /\ \E j \in DOMAIN tasks, k \in InNestedCall :
          tasks[j].state = "done" /\ tasks[j].word # tasks[k].word


\* the futures whose nested call stands at the head of its slot loop, before
\* the statement that counts the attempt for the slot
AboutToCount ==
    {k \in InNestedCall :
        /\ Top(tasks[k].stack).phase = "slot"
        /\ Top(tasks[k].stack).si <= Len(Top(tasks[k].stack).order)}

\* the key of slot_attempts_count that the future is about to write
CountedKey(k) ==
    LET slot == Top(tasks[k].stack).order[Top(tasks[k].stack).si]
    IN  <<slot[1], slot[2], slot[3]>>

\* C33: besides the placement cache and the statistics no variable is
\* written by two sibling futures: two futures never stand before the write
\* of the same per-slot attempt counter.  (slot_attempts_count is one module
\* dictionary; every nested call of every future counts its slots in it,
\* with no lock.)
TasksCountDistinctSlots ==
    \A j, k \in AboutToCount : j # k => CountedKey(j) # CountedKey(k)


\* the futures of the first slot are all with a worker and none has begun:
\* the schedule is still open
SiblingsAllAtStart ==
    /\ top.phase = "wait"
    /\ Len(tasks) = 3
    /\ \A k \in DOMAIN tasks : AtStart(tasks[k])

\* C34: whether the solve succeeds does not depend on the order in which the
\* sibling futures run.  The corpus [AAB, BBA, ABB] fills the open 3x3 grid
\* on every schedule that runs the futures in the order of submission, so
\* on every schedule the finished solve holds a grid.
EveryScheduleSolves ==
    pc = "done" => result # NoResult


-----------------------------------------------------------------------------
(* Properties of the candidates of a slot *)

\* the score of the word with the frequency that load_words stored for it
OwnScore(word) == word_frequencies[word] * freq_weight(config)

LetterRank == [c \in {"A", "B", "C", "R", "T"} |->
                 CASE c = "A" -> 1 [] c = "B" -> 2 [] c = "C" -> 3
                   [] c = "R" -> 4 [] c = "T" -> 5]

\* v comes before w in the lexicographic order, for words of one length
LexBefore(v, w) ==
    \E i \in DOMAIN v :
        /\ \A j \in 1..(i - 1) : v[j] = w[j]
        /\ LetterRank[v[i]] < LetterRank[w[i]]

\* the top-level call has submitted the candidates of a slot that it entered
\* at most twice, so without jitter
CandidatesWithoutJitter ==
    /\ top.phase = "wait"
    /\ Len(top.words) > 1
    /\ AttemptsGet(slot_attempts_count,
                   <<top.order[top.si][1], top.order[top.si][2], top.order[top.si][3]>>) <= 2

\* C35: the candidates of a slot are tried in descending order of
\* frequency_weight[difficulty] * freq(w), freq(w) the normalized count that
\* load_words stored for the word, and words of equal score in lexicographic
\* order.
CandidatesByOwnFrequency ==
    CandidatesWithoutJitter =>
        \A i, k \in DOMAIN top.words :
            i < k =>
                \/ OwnScore(top.words[i]) > OwnScore(top.words[k])
                \/ /\ OwnScore(top.words[i]) = OwnScore(top.words[k])
                   /\ LexBefore(top.words[i], top.words[k])


\* the nodes of the nested calls that stand in the candidate loop of a slot
CandidateNodes == {f \in PlacementStates : f.phase = "word"}

\* C36: for a chosen slot, across or down alike, the candidates tried are
\* words of the lookup list of the pattern of the slot's current grid
\* letters (sorted and truncated to local_max_backtrack).
CandidatesFromGridPattern ==
    \A f \in CandidateNodes :
        Range(f.words) \subseteq Range(GridLookup(f.grid, f.order[f.si]))


-----------------------------------------------------------------------------
(* Properties of the whole search *)

\* the grid after writing the words a[1..k] into the slots 1..k
RECURSIVE FilledGrid(_, _, _, _)
FilledGrid(grid, slots, a, k) ==
    IF k = 0 THEN grid
    ELSE place_word(FilledGrid(grid, slots, a, k - 1), a[k],
                    slots[k][1], slots[k][2], slots[k][3])

\* the assignments of a corpus word to every slot that agree at every
\* crossing and pass the goal test of select_words_recursive
Assignments(grid, slots, words) ==
    {a \in [DOMAIN slots -> Range(words)] :
        /\ \A i \in DOMAIN slots : Len(a[i]) = slots[i][4]
        /\ check_all_letters_connected(
               FilledGrid(grid, slots, a, Len(slots)),
               [i \in DOMAIN slots |-> <<a[i], slots[i][1], slots[i][2], slots[i][3]>>])}

\* the solve has ended, it ran its candidates one after the other and the
\* time limit was out of reach
SequentialSolveDone ==
    /\ pc = "done"
    /\ config.max_thread_pool_size = 1
    /\ config.timeout >= MaxTime

\* C37: the sequential solve is complete: without a timeout, when some
\* assignment of corpus words to all the slots agrees at every crossing and
\* passes the goal test, select_words returns a filled grid.
SequentialSolveComplete ==
    (SequentialSolveDone /\ Assignments(call.grid, call.slots, words_by_length) # {})
        => result # NoResult


\* the solve runs its candidates one after the other and the time limit is
\* out of reach
SequentialSolve ==
    config.max_thread_pool_size = 1 /\ config.timeout >= MaxTime

\* every open call made by try_slot has fewer slots than its caller, and no
\* more calls are open than the grid has slots
FewerSlotsInNestedCalls ==
    \A k \in DOMAIN tasks :
        LET stack == tasks[k].stack
        IN  /\ Len(stack) <= Len(call.slots)
            /\ \A d \in DOMAIN stack :
                  Len(stack[d].slots)
                      < (IF d = 1 THEN Len(top.slots) ELSE Len(stack[d - 1].slots))

\* C38: every sequential call of select_words terminates without a timeout:
\* each recursive call made by try_slot receives strictly fewer slots than
\* its caller, the recursion is never deeper than the number of slots, and
\* the solve returns to its caller.
SequentialSolveTerminates ==
    /\ []FewerSlotsInNestedCalls
    /\ (SequentialSolve /\ pc = "solving") ~> (pc # "solving")
    /\ (SequentialSolve /\ pc = "escape") ~> (pc # "escape")

\* a sequential solve has as many open recursive calls as the grid has slots
DeepestNestedCall ==
    /\ SequentialSolve
    /\ Len(call.slots) > 1
    /\ \E k \in DOMAIN tasks : Len(tasks[k].stack) = Len(call.slots)


-----------------------------------------------------------------------------
(* Properties of the template that the generator is given *)

\* C39: find_suitable_slots and place_theme_entry leave the template they
\* are given as it is, the order and contents of template["slots"] and the
\* letters of template["grid"], whether or not a suitable slot is found.
TemplateUnchanged ==
    [][gen.pc # "none" => gen'.template = gen.template]_vars


-----------------------------------------------------------------------------
(* Properties of the calls on one ThemeManager *)

\* C40: for any sequence of find_theme_entries and choose_theme_entries calls
\* on one ThemeManager, choose_theme_entries(min_chars, max_chars) returns
\* only words whose length lies in the window of that call and that the most
\* recent search found, never words cached by an earlier search.
ChosenInWindowOfLastSearch ==
    (theme.stage = "manager" /\ theme.last = "choose") =>
        \A i \in DOMAIN theme.selected :
            /\ Len(theme.selected[i]) >= OrDefault(theme.min_chars, theme_entry_min_char)
            /\ Len(theme.selected[i]) <= OrDefault(theme.max_chars, theme_entry_max_char)
            /\ \E k \in DOMAIN theme.searched :
                  theme.searched[k].word = theme.selected[i]

====
